---- MODULE Spec2Model ----
(***************************************************************************)
(* riddler-bench: the evaluation engine.                                   *)
(*                                                                         *)
(*   dataset.py            normalize_text                                  *)
(*   evaluate.py           grade_answer, append_jsonl, summarize_results   *)
(*   models.py             build_chat_model, ask_question                  *)
(*   config.py             list_model_specs, resolve_model_specs           *)
(*   cli.py                eval, eval_parallel                             *)
(*   parallel_evaluate.py  ParallelEvaluator (worker pool, orchestrator)   *)
(*                                                                         *)
(* A text is a sequence of one-character strings.  Wall-clock values       *)
(* (latency_ms, elapsed_s) and the progress-bar captions are not modelled. *)
(*                                                                         *)
(*   Spec       a run of evaluate_all_models                               *)
(*   SpecSink   the same, with a result sink that can fail                 *)
(*   SpecGrade  grade_answer and normalize_text called on their own        *)
(*   SpecSummary  summarize_results called on its own                      *)
(*   SpecEval     a run of the sequential eval command of cli.py           *)
(*   SpecResolve  resolve_model_specs called on its own                    *)
(*   SpecStats    one model's summary, from its graded rows or its error   *)
(*   SpecLive     Spec with weak fairness of its steps                     *)
(*   SpecOrder    Spec over spec lists of up to MaxListed models           *)
(***************************************************************************)
EXTENDS Integers, Sequences, FiniteSets, TLC

----------------------------------------------------------------------------
(* Characters                                                              *)

LowerChars == <<"a","b","c","d","e","f","g","h","i","j","k","l","m",
                "n","o","p","q","r","s","t","u","v","w","x","y","z">>

UpperChars == <<"A","B","C","D","E","F","G","H","I","J","K","L","M",
                "N","O","P","Q","R","S","T","U","V","W","X","Y","Z">>

DigitChars == <<"0","1","2","3","4","5","6","7","8","9">>

Range(s) == {s[i] : i \in DOMAIN s}

\* \s of the regular expressions and of str.strip
IsSpaceChar(c) == c \in {" ", "\t", "\n"}

\* \w of the regular expressions
IsWordChar(c) ==
    c \in Range(LowerChars) \cup Range(UpperChars) \cup Range(DigitChars) \cup {"_"}

\* str.lower on one character
LowerChar(c) ==
    IF c \in Range(UpperChars)
    THEN LowerChars[CHOOSE i \in DOMAIN UpperChars : UpperChars[i] = c]
    ELSE c

\* code-point order of the characters a normalized text can hold
CodeOrder == <<" ">> \o DigitChars \o <<"_">> \o LowerChars

CharRank(c) ==
    IF c \in Range(CodeOrder)
    THEN CHOOSE i \in DOMAIN CodeOrder : CodeOrder[i] = c
    ELSE 0

----------------------------------------------------------------------------
(* dataset.py: normalize_text                                              *)

RECURSIVE LStrip(_)
LStrip(t) ==
    IF t = <<>> THEN <<>>
    ELSE IF IsSpaceChar(Head(t)) THEN LStrip(Tail(t)) ELSE t

RECURSIVE RStrip(_)
RStrip(t) ==
    IF t = <<>> THEN <<>>
    ELSE IF IsSpaceChar(t[Len(t)]) THEN RStrip(SubSeq(t, 1, Len(t) - 1)) ELSE t

\* str.strip()
Strip(t) == RStrip(LStrip(t))

\* str.lower()
Lower(t) == [i \in DOMAIN t |-> LowerChar(t[i])]

\* the words of _ARTICLE_RE
Articles == { <<"a">>, <<"a","n">>, <<"t","h","e">> }

\* length of the run of word characters that starts at the head of t
RECURSIVE WordRunLen(_)
WordRunLen(t) ==
    IF t = <<>> \/ ~IsWordChar(Head(t)) THEN 0 ELSE 1 + WordRunLen(Tail(t))

\* _ARTICLE_RE.sub(" ", t): \b(a|an|the)\b matches a maximal run of word
\* characters that is one of the articles (IGNORECASE); prevWord says whether
\* the character before t is a word character.
RECURSIVE SubArticles(_, _)
SubArticles(t, prevWord) ==
    IF t = <<>> THEN <<>>
    ELSE IF IsWordChar(Head(t)) /\ ~prevWord
         THEN LET n == WordRunLen(t)
                  w == SubSeq(t, 1, n)
                  rest == SubSeq(t, n + 1, Len(t))
              IN  IF Lower(w) \in Articles
                  THEN <<" ">> \o SubArticles(rest, FALSE)
                  ELSE w \o SubArticles(rest, TRUE)
         ELSE <<Head(t)>> \o SubArticles(Tail(t), IsWordChar(Head(t)))

\* _PUNCT_RE.sub(" ", t): every character that is neither \w nor \s
SubPunct(t) ==
    [i \in DOMAIN t |-> IF IsWordChar(t[i]) \/ IsSpaceChar(t[i]) THEN t[i] ELSE " "]

\* _WS_RE.sub(" ", t): every run of whitespace becomes one space
RECURSIVE CollapseWs(_)
CollapseWs(t) ==
    IF t = <<>> THEN <<>>
    ELSE IF IsSpaceChar(Head(t))
         THEN <<" ">> \o CollapseWs(LStrip(t))
         ELSE <<Head(t)>> \o CollapseWs(Tail(t))

\* mutant of normalize_text: without the final strip()
normalize_text_unstripped(text) ==
    CollapseWs(SubPunct(SubArticles(Lower(Strip(text)), FALSE)))

normalize_text(text) ==
    LET t1 == Lower(Strip(text))
        t2 == SubArticles(t1, FALSE)
        t3 == SubPunct(t2)
        t4 == CollapseWs(t3)
    IN  Strip(t4)

----------------------------------------------------------------------------
(* rapidfuzz.fuzz.token_set_ratio, as called by grade_answer               *)

Max(a, b) == IF a >= b THEN a ELSE b

\* str.split(): the maximal runs of non-whitespace characters
RECURSIVE NonSpaceRunLen(_)
NonSpaceRunLen(t) ==
    IF t = <<>> \/ IsSpaceChar(Head(t)) THEN 0 ELSE 1 + NonSpaceRunLen(Tail(t))

RECURSIVE Split(_)
Split(t) ==
    IF t = <<>> THEN <<>>
    ELSE IF IsSpaceChar(Head(t)) THEN Split(Tail(t))
         ELSE LET n == NonSpaceRunLen(t)
              IN  <<SubSeq(t, 1, n)>> \o Split(SubSeq(t, n + 1, Len(t)))

\* a < b in the order of Python strings
RECURSIVE LexLess(_, _)
LexLess(a, b) ==
    IF b = <<>> THEN FALSE
    ELSE IF a = <<>> THEN TRUE
    ELSE IF Head(a) = Head(b) THEN LexLess(Tail(a), Tail(b))
    ELSE CharRank(Head(a)) < CharRank(Head(b))

\* sorted(S) of a set of tokens
RECURSIVE Sorted(_)
Sorted(S) ==
    IF S = {} THEN <<>>
    ELSE LET m == CHOOSE x \in S : \A y \in S \ {x} : LexLess(x, y)
         IN  <<m>> \o Sorted(S \ {m})

\* " ".join(tokens)
RECURSIVE Join(_)
Join(toks) ==
    IF toks = <<>> THEN <<>>
    ELSE IF Len(toks) = 1 THEN toks[1]
    ELSE toks[1] \o <<" ">> \o Join(Tail(toks))

\* one row of the longest-common-subsequence table: prev is the row of the
\* previous character of a (index j + 1 holds column j), acc the row of c so far
RECURSIVE LcsRow(_, _, _, _)
LcsRow(prev, c, b, acc) ==
    LET j == Len(acc)
    IN  IF j > Len(b) THEN acc
        ELSE LcsRow(prev, c, b,
                    Append(acc, IF c = b[j] THEN prev[j] + 1
                                ELSE Max(prev[j + 1], acc[j])))

RECURSIVE LcsRows(_, _, _)
LcsRows(a, b, prev) ==
    IF a = <<>> THEN prev[Len(b) + 1]
    ELSE LET row == LcsRow(prev, Head(a), b, <<0>>)
         \* (the test on the row's length only makes TLC evaluate the row once)
         IN  IF Len(row) = Len(b) + 1 THEN LcsRows(Tail(a), b, row) ELSE 0

LcsLen(a, b) == LcsRows(a, b, [j \in 1..(Len(b) + 1) |-> 0])

\* Indel.distance: insertions and deletions only
IndelDistance(a, b) == Len(a) + Len(b) - 2 * LcsLen(a, b)

\* A score is the exact fraction num / den (den > 0).  The floats of the
\* code differ from it by rounding errors far below 1 / den, the least
\* distance of such a fraction from an integer it does not equal.
Ratio(num, den) == [num |-> num, den |-> den]

\* x >= y of two scores
RatioGeq(x, y) == x.num * y.den >= y.num * x.den

\* max(S) of a set of scores that is not empty
MaxOf(S) == CHOOSE x \in S : \A y \in S : RatioGeq(x, y)

\* int(x) of a score that is not negative
RatioInt(x) == x.num \div x.den

\* norm_distance: 100 - 100 * dist / lensum
NormDistance(dist, lensum) ==
    IF lensum = 0 THEN Ratio(100, 1) ELSE Ratio(100 * (lensum - dist), lensum)

token_set_ratio(s1, s2) ==
    LET tokens_a == Range(Split(s1))
        tokens_b == Range(Split(s2))
        intersect == tokens_a \cap tokens_b
        diff_ab == tokens_a \ tokens_b
        diff_ba == tokens_b \ tokens_a
        diff_ab_joined == Join(Sorted(diff_ab))
        diff_ba_joined == Join(Sorted(diff_ba))
        ab_len == Len(diff_ab_joined)
        ba_len == Len(diff_ba_joined)
        sect_len == Len(Join(Sorted(intersect)))
        sep == IF sect_len # 0 THEN 1 ELSE 0
        sect_ab_len == sect_len + sep + ab_len
        sect_ba_len == sect_len + sep + ba_len
        result == NormDistance(IndelDistance(diff_ab_joined, diff_ba_joined),
                               sect_ab_len + sect_ba_len)
        sect_ab_ratio == NormDistance(sep + ab_len, sect_len + sect_ab_len)
        sect_ba_ratio == NormDistance(sep + ba_len, sect_len + sect_ba_len)
    IN  IF tokens_a = {} \/ tokens_b = {} THEN Ratio(0, 1)
        ELSE IF intersect # {} /\ (diff_ab = {} \/ diff_ba = {}) THEN Ratio(100, 1)
        ELSE IF sect_len = 0 THEN result
        ELSE MaxOf({result, sect_ab_ratio, sect_ba_ratio})

----------------------------------------------------------------------------
(* evaluate.py: grade_answer                                               *)

\* Python values handed to grade_answer as the prediction: a str, the
\* (answer_text, token_usage) tuple that ask_question returns, or None
StrVal(t) == [kind |-> "str", text |-> t]
TupleVal(t) == [kind |-> "tuple", text |-> t]
NoneVal == [kind |-> "none"]

\* item.aliases or []
AliasesOrEmpty(item) == IF item.aliases.some THEN item.aliases.list ELSE <<>>

\* mutant of grade_answer: the stored score is round(fuzzy_score)
grade_answer_rounded(item, prediction, fuzzy_threshold) ==
    IF prediction.kind # "str"
    THEN [raised |-> TRUE, exc |-> "AttributeError"]
    ELSE LET gold == normalize_text(item.answer)
             pred == normalize_text(prediction.text)
             alias_norms == {normalize_text(a) : a \in Range(AliasesOrEmpty(item))}
             fuzzy_score == MaxOf({token_set_ratio(pred, gold)}
                                    \cup {token_set_ratio(pred, a) : a \in alias_norms})
             is_exact == pred = gold /\ Len(pred) > 0
             is_alias == pred \in alias_norms
         IN  [raised |-> FALSE,
              is_exact |-> is_exact,
              is_alias |-> is_alias,
              fuzzy |-> (2 * fuzzy_score.num + fuzzy_score.den) \div (2 * fuzzy_score.den),
              is_correct |-> \/ is_exact
                             \/ is_alias
                             \/ RatioGeq(fuzzy_score, Ratio(fuzzy_threshold, 1))]

\* mutant of grade_answer: the aliases are compared as written
grade_answer_raw_alias(item, prediction, fuzzy_threshold) ==
    IF prediction.kind # "str"
    THEN [raised |-> TRUE, exc |-> "AttributeError"]
    ELSE LET gold == normalize_text(item.answer)
             pred == normalize_text(prediction.text)
             alias_norms == {normalize_text(a) : a \in Range(AliasesOrEmpty(item))}
             fuzzy_score == MaxOf({token_set_ratio(pred, gold)}
                                    \cup {token_set_ratio(pred, a) : a \in alias_norms})
             is_exact == pred = gold /\ Len(pred) > 0
             is_alias == pred \in Range(AliasesOrEmpty(item))
         IN  [raised |-> FALSE,
              is_exact |-> is_exact,
              is_alias |-> is_alias,
              fuzzy |-> RatioInt(fuzzy_score),
              is_correct |-> \/ is_exact
                             \/ is_alias
                             \/ RatioGeq(fuzzy_score, Ratio(fuzzy_threshold, 1))]

\* mutant of grade_answer: the comparison with the threshold is turned round
grade_answer_below(item, prediction, fuzzy_threshold) ==
    IF prediction.kind # "str"
    THEN [raised |-> TRUE, exc |-> "AttributeError"]
    ELSE LET gold == normalize_text(item.answer)
             pred == normalize_text(prediction.text)
             alias_norms == {normalize_text(a) : a \in Range(AliasesOrEmpty(item))}
             fuzzy_score == MaxOf({token_set_ratio(pred, gold)}
                                    \cup {token_set_ratio(pred, a) : a \in alias_norms})
             is_exact == pred = gold /\ Len(pred) > 0
             is_alias == pred \in alias_norms
         IN  [raised |-> FALSE,
              is_exact |-> is_exact,
              is_alias |-> is_alias,
              fuzzy |-> RatioInt(fuzzy_score),
              is_correct |-> \/ is_exact
                             \/ is_alias
                             \/ RatioGeq(Ratio(fuzzy_threshold, 1), fuzzy_score)]

\* The result is a Grade, or the exception normalize_text raises when the
\* prediction has no .strip (anything but a str).
grade_answer(item, prediction, fuzzy_threshold) ==
    IF prediction.kind # "str"
    THEN [raised |-> TRUE, exc |-> "AttributeError"]
    ELSE LET gold == normalize_text(item.answer)
             pred == normalize_text(prediction.text)
             is_exact == pred = gold /\ Len(pred) > 0
             alias_norms == {normalize_text(a) : a \in Range(AliasesOrEmpty(item))}
             is_alias == pred \in alias_norms
             fuzzy_scores == {token_set_ratio(pred, gold)}
                               \cup {token_set_ratio(pred, a) : a \in alias_norms}
             fuzzy_score == MaxOf(fuzzy_scores)
             is_correct == \/ is_exact
                           \/ is_alias
                           \/ RatioGeq(fuzzy_score, Ratio(fuzzy_threshold, 1))
         IN  [raised |-> FALSE,
              is_exact |-> is_exact,
              is_alias |-> is_alias,
              fuzzy |-> RatioInt(fuzzy_score),
              is_correct |-> is_correct]

----------------------------------------------------------------------------
(* evaluate.py: summarize_results                                          *)

RECURSIVE CountRows(_, _)
CountRows(rs, flag) ==
    IF rs = <<>> THEN 0
    ELSE (IF Head(rs)[flag] THEN 1 ELSE 0) + CountRows(Tail(rs), flag)

RECURSIVE SumFuzzy(_)
SumFuzzy(rs) == IF rs = <<>> THEN 0 ELSE Head(rs).fuzzy + SumFuzzy(Tail(rs))

\* round(num / den, k) scaled to an integer: nearest, a tie to the even
\* neighbour (the ties that occur for small totals, x.25 and x.75, are exact
\* binary fractions, where Python's round is round-half-even)
RoundDiv(num, den) ==
    LET q == num \div den
        r == num % den
    IN  IF 2 * r < den THEN q
        ELSE IF 2 * r > den THEN q + 1
        ELSE IF q % 2 = 0 THEN q ELSE q + 1

\* mutant of summarize_results: the quotients are cut off, not rounded
summarize_results_truncated(rs) ==
    LET total == Len(rs)
        correct == CountRows(rs, "is_correct")
    IN  [total |-> total,
         correct |-> correct,
         accuracy |-> IF total # 0 THEN (1000 * correct) \div total ELSE 0,
         exact |-> CountRows(rs, "is_exact"),
         alias |-> CountRows(rs, "is_alias"),
         avg_fuzzy |-> (10 * SumFuzzy(rs)) \div Max(total, 1)]

\* accuracy is held in thousandths and avg_fuzzy in tenths
summarize_results(rs) ==
    LET total == Len(rs)
        correct == CountRows(rs, "is_correct")
    IN  [total |-> total,
         correct |-> correct,
         accuracy |-> IF total # 0 THEN RoundDiv(1000 * correct, total) ELSE 0,
         exact |-> CountRows(rs, "is_exact"),
         alias |-> CountRows(rs, "is_alias"),
         avg_fuzzy |-> RoundDiv(10 * SumFuzzy(rs), Max(total, 1))]

----------------------------------------------------------------------------
(* config.py: ModelSpec                                                    *)

\* ModelSpec; deployment <<>> stands for None (and for the empty string,
\* which display_name treats alike)
ModelSpec(provider_key, model_id, deployment) ==
    [provider_key |-> provider_key, model_id |-> model_id, deployment |-> deployment]

display_name(spec) ==
    IF spec.deployment # <<>> /\ spec.deployment # spec.model_id
    THEN spec.provider_key \o <<":">> \o spec.model_id
           \o <<"(">> \o spec.deployment \o <<")">>
    ELSE spec.provider_key \o <<":">> \o spec.model_id

\* str.replace(old, new) for one-character old and new
Replace(t, old, new) == [i \in DOMAIN t |-> IF t[i] = old THEN new ELSE t[i]]

\* str.split(sep)[0]: the text before the first sep, the whole text when it
\* holds none
SplitFirst(t, sep) ==
    LET at == {i \in DOMAIN t : t[i] = sep}
    IN  IF at = {} THEN t
        ELSE SubSeq(t, 1, (CHOOSE i \in at : \A j \in at : i <= j) - 1)

----------------------------------------------------------------------------
(* Inputs of a run                                                         *)

MaxItems == 2
MaxModels == 2
\* most invocations in one run: Len(model_specs) * Len(items)
MaxCalls == 3

Groq == <<"g","r","o","q">>
OpenRouter == <<"o","p","e","n","r","o","u","t","e","r">>
AzureOpenAI == <<"a","z","u","r","e","_","o","p","e","n","a","i">>

\* the models a providers config can resolve to
SpecUniverse ==
    { ModelSpec(Groq, <<"a","/","b">>, <<>>),
      ModelSpec(Groq, <<"a","_","b">>, <<>>),
      ModelSpec(OpenRouter, <<"m">>, <<"d">>) }

Providers == {sp.provider_key : sp \in SpecUniverse}

SpecLists == UNION { [1..n -> SpecUniverse] : n \in 1..MaxModels }

\* most models of a run whose summary order is looked at
MaxListed == 3

\* the longer spec lists, in which a provider can come back after another
ListedSpecs == UNION { [1..n -> SpecUniverse] : n \in 1..MaxListed }

Paris == <<"P","a","r","i","s">>
CityOfLight == <<"C","i","t","y"," ","o","f"," ","L","i","g","h","t">>
TheCityOfLight ==
    <<"t","h","e"," ","c","i","t","y"," ","o","f"," ","l","i","g","h","t">>
Rome == <<"R","o","m","e">>
KeyText == <<"K","e","y">>
ErrorText == <<"E","r","r","o","r">>

\* what the dataset records hold besides the id
ItemContents ==
    << [answer |-> KeyText, aliases |-> [some |-> FALSE, list |-> <<>>]],
       [answer |-> Paris, aliases |-> [some |-> TRUE, list |-> <<CityOfLight>>]],
       [answer |-> ErrorText, aliases |-> [some |-> TRUE, list |-> <<>>]] >>

\* QAItem number i of the dataset; ids are unique within a dataset
QAItem(i) ==
    LET c == ItemContents[((i - 1) % Len(ItemContents)) + 1]
    IN  [id |-> i, question |-> <<"Q">>, answer |-> c.answer, aliases |-> c.aliases]

\* the texts a remote model answers with
AnswerTexts == { TheCityOfLight }

\* str(e) of the exceptions an invocation raises
TimeoutMsg == <<"t","i","m","e","d"," ","o","u","t">>
InvalidKeyMsg == <<"I","n","v","a","l","i","d"," ","A","P","I"," ","k","e","y">>
ErrorTexts == { TimeoutMsg, InvalidKeyMsg }

\* ParallelEvaluator.__init__: the default limits
DefaultConcurrency == (AzureOpenAI :> 20) @@ (Groq :> 2) @@ (OpenRouter :> 5)

\* provider_concurrency maps a run is configured with
ConcurrencyMaps == { DefaultConcurrency, (Groq :> 1), (Groq :> 0) @@ (OpenRouter :> 2) }

\* default of fuzzy_threshold
FuzzyThreshold == 85

\* self.provider_concurrency.get(provider, 5)
DefaultWorkers == 5

\* build_chat_model: the default of max_retries, which evaluate_model_parallel
\* leaves alone and build_chat_model hands to the client
max_retries == 2

\* the failures the client answers with another request while retries
\* remain: timeouts, connection errors, 408, 409, 429 and 5xx responses
Retryable == { TimeoutMsg }

----------------------------------------------------------------------------
(* State                                                                   *)

VARIABLES
    model_specs,            \* evaluate_all_models: the requested ModelSpecs
    items,                  \* the dataset
    provider_concurrency,   \* ParallelEvaluator.provider_concurrency
    api_keys,               \* providers whose api_key_env is set in os.environ
    files,                  \* the output directory: path -> existence and lines
    mi,                     \* position of the model loop in the provider groups
    pc,                     \* "idle" between models, "pool", "returned"
    tstate,                 \* per submitted item: where its process_question is
    trow,                   \* per item: the row its process_question built
    collected,              \* futures the as_completed loop has consumed
    rows,                   \* evaluate_model_parallel: rows
    pbar_n,                 \* per-model progress bar count
    summary_rows,           \* evaluate_all_models: summary_rows
    overall_n,              \* overall progress bar count
    retries,                \* per invocation in flight: retries its client has made
    summary_csv,            \* cli.py eval_parallel: the summary.csv of the run
    grading,                \* a direct call of the grader: arguments and results
    summarizing,            \* a direct call of summarize_results
    resolving,              \* a direct call of resolve_model_specs
    outcome,                \* history: <<mi, i>> -> what ask_question did
    appended                \* history: per model position, rows it appended

vars == <<model_specs, items, provider_concurrency, api_keys, files, mi, pc,
          tstate, trow, collected, rows, pbar_n, summary_rows, overall_n,
          retries, summary_csv, grading, summarizing, resolving, outcome,
          appended>>

\* the direct calls of the pure functions
direct == <<grading, summarizing, resolving>>

inputs == <<model_specs, items, provider_concurrency, api_keys>>

----------------------------------------------------------------------------
(* parallel_evaluate.py: ParallelEvaluator                                 *)

_get_provider_name(spec) == SplitFirst(display_name(spec), ":")

max_workers(spec) ==
    LET provider == _get_provider_name(spec)
    IN  IF provider \in DOMAIN provider_concurrency
        THEN provider_concurrency[provider]
        ELSE DefaultWorkers

\* the file name of out_path
out_path(spec) ==
    Replace(Replace(display_name(spec), "/", "_"), ":", "_")
      \o <<".","j","s","o","n","l">>

Paths == {out_path(sp) : sp \in SpecUniverse}

\* mutant of BuildRaises: the client is built without looking for the key
BuildNeverRaises(spec) == FALSE

\* models.py build_chat_model: raises EnvironmentError without the API key
BuildRaises(spec) == spec.provider_key \notin api_keys

\* the providers in order of first occurrence (dict insertion order)
RECURSIVE ProviderOrder(_, _)
ProviderOrder(specs, seen) ==
    IF specs = <<>> THEN <<>>
    ELSE LET p == _get_provider_name(Head(specs))
         IN  IF p \in seen THEN ProviderOrder(Tail(specs), seen)
             ELSE <<p>> \o ProviderOrder(Tail(specs), seen \cup {p})

RECURSIVE SpecsOf(_, _)
SpecsOf(specs, p) ==
    IF specs = <<>> THEN <<>>
    ELSE IF _get_provider_name(Head(specs)) = p
         THEN <<Head(specs)>> \o SpecsOf(Tail(specs), p)
         ELSE SpecsOf(Tail(specs), p)

\* mutant of provider_groups: every spec is a group of its own, in input order
provider_groups_ungrouped(specs) ==
    [k \in DOMAIN specs |->
        [provider |-> _get_provider_name(specs[k]), specs |-> <<specs[k]>>]]

\* provider_groups, as the sequence of its (provider, specs) items
provider_groups(specs) ==
    LET ps == ProviderOrder(specs, {})
    IN  [k \in DOMAIN ps |-> [provider |-> ps[k], specs |-> SpecsOf(specs, ps[k])]]

RECURSIVE Flatten(_)
Flatten(groups) ==
    IF groups = <<>> THEN <<>> ELSE Head(groups).specs \o Flatten(Tail(groups))

\* the order in which the nested loops of evaluate_all_models visit the
\* specs, for every spec list of a run (@@ makes an explicit function of it,
\* so that each order is computed once)
RunOrders ==
    [specs \in SpecLists \cup ListedSpecs |-> Flatten(provider_groups(specs))]
      @@ << >>

\* the order in which the nested loops of evaluate_all_models visit the specs
RunOrder == RunOrders[model_specs]

CurSpec == RunOrder[mi]

N == Len(items)

\* mutant of Unlinked: the file of an earlier run is left in place
UnlinkedNever(fs, path) == fs

\* path.unlink() when path.exists()
Unlinked(fs, path) == [fs EXCEPT ![path] = [exists |-> FALSE, lines |-> <<>>]]

\* models.py ask_question: return clean_text, token_usage
ask_question(text) == TupleVal(text)

\* f"<error: {e}>"
ErrorTag(e) == <<"<","e","r","r","o","r",":"," ">> \o e \o <<">">>

\* process_question, the try/except around ask_question: oc is what the
\* remote call did, a returned text or a raised exception with its message
AnswerOf(oc) == IF oc.ok THEN ask_question(oc.text) ELSE StrVal(ErrorTag(oc.text))

\* process_question: the row dict
MakeRow(item, model_key, ans, g) ==
    [id |-> item.id,
     question |-> item.question,
     answer_ref |-> item.answer,
     aliases |-> AliasesOrEmpty(item),
     model |-> model_key,
     answer |-> ans,
     is_exact |-> g.is_exact,
     is_alias |-> g.is_alias,
     fuzzy |-> g.fuzzy,
     is_correct |-> g.is_correct]

\* mutant of ModelStats: the counts of correct and of exact rows change
\* places
ModelStatsSwapped(spec, rs) ==
    LET st == summarize_results(rs)
    IN  [model |-> display_name(spec), total |-> st.total, correct |-> st.exact,
         accuracy |-> st.accuracy, exact |-> st.correct, alias |-> st.alias,
         avg_fuzzy |-> st.avg_fuzzy, has_error |-> FALSE, error |-> ""]

\* evaluate_model_parallel: stats.update({"model": model_key, ...})
ModelStats(spec, rs) ==
    LET st == summarize_results(rs)
    IN  [model |-> display_name(spec), total |-> st.total, correct |-> st.correct,
         accuracy |-> st.accuracy, exact |-> st.exact, alias |-> st.alias,
         avg_fuzzy |-> st.avg_fuzzy, has_error |-> FALSE, error |-> ""]

\* evaluate_all_models: error_stats
error_stats(spec, e) ==
    [model |-> display_name(spec), total |-> N, correct |-> 0,
     accuracy |-> 0, exact |-> 0, alias |-> 0,
     avg_fuzzy |-> 0, has_error |-> TRUE, error |-> e]

\* tasks a worker thread is executing
Running == {i \in DOMAIN tstate : tstate[i] \in {"asking", "graded", "appending"}}

\* invocations in flight
InFlight == {i \in DOMAIN tstate : tstate[i] = "asking"}

\* workers inside the with-block of append_jsonl
Appending == {i \in DOMAIN tstate : tstate[i] = "appending"}

\* mutant of Finished: the future completes when the row is built, before
\* append_jsonl has written it
FinishedBeforeWrite ==
    {i \in DOMAIN tstate :
        tstate[i] \in {"graded", "appending", "done", "raised", "write_failed"}}

\* mutant of Finished: a future whose process_question raised never
\* completes
FinishedWithRow == {i \in DOMAIN tstate : tstate[i] = "done"}

\* futures that are done: with a result, with the exception of grade_answer
\* or with the OSError of append_jsonl
Finished == {i \in DOMAIN tstate : tstate[i] \in {"done", "raised", "write_failed"}}

\* mutant of CanStart: every submitted item gets a thread of its own
CanStartUnbounded(i) ==
    /\ tstate[i] = "queued"
    /\ \A j \in 1..(i - 1) : tstate[j] # "queued"

\* ThreadPoolExecutor: a queued work item starts when fewer than max_workers
\* threads are busy; the work queue is first in, first out
CanStart(i) ==
    /\ tstate[i] = "queued"
    /\ \A j \in 1..(i - 1) : tstate[j] # "queued"
    /\ Cardinality(Running) < max_workers(CurSpec)

NoPool ==
    /\ tstate' = <<>>
    /\ trow' = <<>>
    /\ collected' = {}
    /\ rows' = <<>>
    /\ pbar_n' = 0
    /\ retries' = <<>>

\* mutant of FailModel: the except branch does not append error_stats
FailModelNoSummary(e) ==
    /\ files' = Unlinked(files, out_path(CurSpec))
    /\ overall_n' = overall_n + 1
    /\ mi' = mi + 1
    /\ pc' = "idle"
    /\ NoPool
    /\ UNCHANGED <<inputs, direct, summary_csv, summary_rows, outcome,
                   appended>>

\* mutant of FailModel: no except branch, the exception leaves
\* evaluate_all_models
FailModelRaises(e) ==
    /\ files' = Unlinked(files, out_path(CurSpec))
    /\ pc' = "raised"
    /\ NoPool
    /\ UNCHANGED <<inputs, direct, summary_csv, mi, summary_rows, overall_n,
                   outcome, appended>>

\* mutant of FailModel: the except branch starts summary_rows afresh
FailModelResets(e) ==
    /\ files' = Unlinked(files, out_path(CurSpec))
    /\ summary_rows' = <<error_stats(CurSpec, e)>>
    /\ overall_n' = overall_n + 1
    /\ mi' = mi + 1
    /\ pc' = "idle"
    /\ NoPool
    /\ UNCHANGED <<inputs, direct, summary_csv, outcome, appended>>

\* mutant of FailModel: the model fails before the file of an earlier run
\* is removed
FailModelKeepsFile(e) ==
    /\ files' = files
    /\ summary_rows' = Append(summary_rows, error_stats(CurSpec, e))
    /\ overall_n' = overall_n + 1
    /\ mi' = mi + 1
    /\ pc' = "idle"
    /\ NoPool
    /\ UNCHANGED <<inputs, direct, summary_csv, outcome, appended>>

\* the except branch of evaluate_all_models, after the unlink of
\* evaluate_model_parallel
FailModel(e) ==
    /\ files' = Unlinked(files, out_path(CurSpec))
    /\ summary_rows' = Append(summary_rows, error_stats(CurSpec, e))
    /\ overall_n' = overall_n + 1
    /\ mi' = mi + 1
    /\ pc' = "idle"
    /\ NoPool
    /\ UNCHANGED <<inputs, direct, summary_csv, outcome, appended>>

\* evaluate_model_parallel up to build_chat_model, which raises
BuildFails ==
    /\ pc = "idle"
    /\ mi <= Len(RunOrder)
    /\ BuildRaises(CurSpec)
    /\ FailModel("EnvironmentError")

\* evaluate_model_parallel up to ThreadPoolExecutor(max_workers), which
\* raises ValueError for max_workers <= 0
PoolFails ==
    /\ pc = "idle"
    /\ mi <= Len(RunOrder)
    /\ ~BuildRaises(CurSpec)
    /\ max_workers(CurSpec) <= 0
    /\ FailModel("ValueError")

\* evaluate_model_parallel up to the submission of every item
StartPool ==
    /\ pc = "idle"
    /\ mi <= Len(RunOrder)
    /\ ~BuildRaises(CurSpec)
    /\ max_workers(CurSpec) > 0
    /\ files' = Unlinked(files, out_path(CurSpec))
    /\ tstate' = [i \in 1..N |-> "queued"]
    /\ trow' = <<>>
    /\ collected' = {}
    /\ rows' = <<>>
    /\ pbar_n' = 0
    /\ retries' = <<>>
    /\ pc' = "pool"
    /\ UNCHANGED <<inputs, direct, summary_csv, mi, summary_rows, overall_n,
                   outcome, appended>>

\* a worker thread takes the item off the queue and calls ask_question
WorkerStart(i) ==
    /\ pc = "pool"
    /\ CanStart(i)
    /\ tstate' = [tstate EXCEPT ![i] = "asking"]
    /\ retries' = (i :> 0) @@ retries
    /\ UNCHANGED <<inputs, direct, summary_csv, files, mi, pc, trow,
                   collected, rows, pbar_n, summary_rows, overall_n, outcome,
                   appended>>

\* what process_question passes to grade_answer as the answer
RunAnswers ==
    {AnswerOf([ok |-> TRUE, text |-> t]) : t \in AnswerTexts}
    \cup {AnswerOf([ok |-> FALSE, text |-> e]) : e \in ErrorTexts}

\* grade_answer(item, answer, fuzzy_threshold=fuzzy_threshold) for the items
\* and the answers of runs (@@ makes an explicit function of it, so that each
\* grade is computed once)
RunGrade ==
    [it \in {QAItem(i) : i \in 1..MaxItems}, ans \in RunAnswers |->
        grade_answer(it, ans, FuzzyThreshold)] @@ << >>

\* process_question from the end of the remote call to the built row, or to
\* the exception grade_answer raises
Answered(i, oc) ==
    LET ans == AnswerOf(oc)
        g == RunGrade[items[i], ans]
    IN  /\ pc = "pool"
        /\ tstate[i] = "asking"
        /\ outcome' = (<<mi, i>> :> oc) @@ outcome
        /\ retries' = [j \in DOMAIN retries \ {i} |-> retries[j]]
        /\ IF g.raised
           THEN /\ tstate' = [tstate EXCEPT ![i] = "raised"]
                /\ trow' = trow
           ELSE /\ tstate' = [tstate EXCEPT ![i] = "graded"]
                /\ trow' = (i :> MakeRow(items[i], display_name(CurSpec), ans, g)) @@ trow
        /\ UNCHANGED <<inputs, direct, summary_csv, files, mi, pc, collected,
                       rows, pbar_n, summary_rows, overall_n, appended>>

\* ask_question returns
AskReturns(i) == \E t \in AnswerTexts : Answered(i, [ok |-> TRUE, text |-> t])

\* ask_question raises: a retryable failure reaches the caller only when the
\* client has used up its retries
AskRaises(i) ==
    \E e \in ErrorTexts :
        /\ i \in DOMAIN retries
        /\ e \in Retryable => retries[i] = max_retries
        /\ Answered(i, [ok |-> FALSE, text |-> e])

\* llm.invoke inside ask_question: the request failed with a retryable
\* failure and the client sends it again
RetryRequest(i) ==
    /\ pc = "pool"
    /\ tstate[i] = "asking"
    /\ retries[i] < max_retries
    /\ retries' = [retries EXCEPT ![i] = @ + 1]
    /\ UNCHANGED <<inputs, direct, summary_csv, files, mi, pc, tstate, trow,
                   collected, rows, pbar_n, summary_rows, overall_n, outcome,
                   appended>>

\* append_jsonl: open(path, "a")
AppendOpen(i) ==
    /\ pc = "pool"
    /\ tstate[i] = "graded"
    /\ tstate' = [tstate EXCEPT ![i] = "appending"]
    /\ files' = [files EXCEPT ![out_path(CurSpec)].exists = TRUE]
    /\ UNCHANGED <<inputs, direct, summary_csv, retries, mi, pc, trow,
                   collected, rows, pbar_n, summary_rows, overall_n, outcome,
                   appended>>

\* mutant of AppendClose: the worker thread appends its row to rows itself
AppendCloseShared(i) ==
    /\ pc = "pool"
    /\ tstate[i] = "appending"
    /\ tstate' = [tstate EXCEPT ![i] = "done"]
    /\ files' = [files EXCEPT ![out_path(CurSpec)].lines = Append(@, trow[i])]
    /\ appended' = [appended EXCEPT ![mi] = Append(@, trow[i])]
    /\ rows' = Append(rows, trow[i])
    /\ UNCHANGED <<inputs, direct, summary_csv, retries, mi, pc, trow,
                   collected, pbar_n, summary_rows, overall_n, outcome>>

\* append_jsonl: f.write(line) and the close that flushes it; process_question
\* returns the row
AppendClose(i) ==
    /\ pc = "pool"
    /\ tstate[i] = "appending"
    /\ tstate' = [tstate EXCEPT ![i] = "done"]
    /\ files' = [files EXCEPT ![out_path(CurSpec)].lines = Append(@, trow[i])]
    /\ appended' = [appended EXCEPT ![mi] = Append(@, trow[i])]
    /\ UNCHANGED <<inputs, direct, summary_csv, retries, mi, pc, trow,
                   collected, rows, pbar_n, summary_rows, overall_n, outcome>>

\* what is left of a line whose write failed part-way
TornLine == [torn |-> TRUE]

\* append_jsonl: open(path, "a") raises OSError (permission, read-only
\* directory); the exception ends process_question, whose row is dropped
AppendOpenFails(i) ==
    /\ pc = "pool"
    /\ tstate[i] = "graded"
    /\ tstate' = [tstate EXCEPT ![i] = "write_failed"]
    /\ trow' = [j \in DOMAIN trow \ {i} |-> trow[j]]
    /\ UNCHANGED <<inputs, direct, summary_csv, retries, files, mi, pc,
                   collected, rows, pbar_n, summary_rows, overall_n, outcome,
                   appended>>

\* mutant of AppendWriteFails: the failed write leaves only its torn line in
\* the file
AppendWriteFailsTruncating(i) ==
    /\ pc = "pool"
    /\ tstate[i] = "appending"
    /\ tstate' = [tstate EXCEPT ![i] = "write_failed"]
    /\ trow' = [j \in DOMAIN trow \ {i} |-> trow[j]]
    /\ files' = [files EXCEPT ![out_path(CurSpec)].lines = <<TornLine>>]
    /\ UNCHANGED <<inputs, direct, summary_csv, retries, mi, pc, collected,
                   rows, pbar_n, summary_rows, overall_n, outcome, appended>>

\* append_jsonl: f.write(line) or the flush of the close raises OSError
\* (disk full); none of the line or a part of it has reached the file
AppendWriteFails(i) ==
    /\ pc = "pool"
    /\ tstate[i] = "appending"
    /\ tstate' = [tstate EXCEPT ![i] = "write_failed"]
    /\ trow' = [j \in DOMAIN trow \ {i} |-> trow[j]]
    /\ \E torn \in BOOLEAN :
          files' = IF torn
                   THEN [files EXCEPT ![out_path(CurSpec)].lines = Append(@, TornLine)]
                   ELSE files
    /\ UNCHANGED <<inputs, direct, summary_csv, retries, mi, pc, collected,
                   rows, pbar_n, summary_rows, overall_n, outcome, appended>>

\* mutant of Collect: the loop changes a field of the row it collects
CollectRestamped(i) ==
    /\ pc = "pool"
    /\ i \in Finished \ collected
    /\ collected' = collected \cup {i}
    /\ rows' = IF i \in DOMAIN trow
               THEN Append(rows, [trow[i] EXCEPT !.model = <<>>])
               ELSE rows
    /\ pbar_n' = pbar_n + 1
    /\ UNCHANGED <<inputs, direct, summary_csv, retries, files, mi, pc,
                   tstate, trow, summary_rows, overall_n, outcome, appended>>

\* mutant of Collect: the except branch does not update the progress bar
CollectSilentOnError(i) ==
    /\ pc = "pool"
    /\ i \in Finished \ collected
    /\ collected' = collected \cup {i}
    /\ rows' = IF i \in DOMAIN trow THEN Append(rows, trow[i]) ELSE rows
    /\ pbar_n' = IF i \in DOMAIN trow THEN pbar_n + 1 ELSE pbar_n
    /\ UNCHANGED <<inputs, direct, summary_csv, retries, files, mi, pc,
                   tstate, trow, summary_rows, overall_n, outcome, appended>>

\* one iteration of the as_completed loop: future.result() gives the row,
\* or raises into the except branch
Collect(i) ==
    /\ pc = "pool"
    /\ i \in Finished \ collected
    /\ collected' = collected \cup {i}
    /\ rows' = IF i \in DOMAIN trow THEN Append(rows, trow[i]) ELSE rows
    /\ pbar_n' = pbar_n + 1
    /\ UNCHANGED <<inputs, direct, summary_csv, retries, files, mi, pc,
                   tstate, trow, summary_rows, overall_n, outcome, appended>>

\* mutant of FinishPool: the pool is left without waiting for its futures
FinishPoolEarly ==
    /\ pc = "pool"
    /\ summary_rows' = Append(summary_rows, ModelStats(CurSpec, rows))
    /\ overall_n' = overall_n + 1
    /\ mi' = mi + 1
    /\ pc' = "idle"
    /\ NoPool
    /\ UNCHANGED <<inputs, direct, summary_csv, files, outcome, appended>>

\* the with-blocks end; evaluate_model_parallel returns stats and
\* evaluate_all_models appends them
FinishPool ==
    /\ pc = "pool"
    /\ collected = 1..N
    /\ summary_rows' = Append(summary_rows, ModelStats(CurSpec, rows))
    /\ overall_n' = overall_n + 1
    /\ mi' = mi + 1
    /\ pc' = "idle"
    /\ NoPool
    /\ UNCHANGED <<inputs, direct, summary_csv, files, outcome, appended>>

\* evaluate_all_models returns summary_rows
Return ==
    /\ pc = "idle"
    /\ mi > Len(RunOrder)
    /\ pc' = "returned"
    /\ UNCHANGED <<inputs, direct, summary_csv, retries, files, mi, tstate,
                   trow, collected, rows, pbar_n, summary_rows, overall_n,
                   outcome, appended>>

\* cli.py eval_parallel: the fieldnames every summary.csv has (elapsed_s, a
\* wall-clock value, is left out)
BaseFields == <<"model", "total", "correct", "accuracy", "exact", "alias", "avg_fuzzy">>

\* key in row, of a summary dict: only an error summary has the key "error"
HasKey(row, key) == key # "error" \/ row.has_error

\* the fieldnames of the DictWriter
Fieldnames(rs) ==
    IF \E k \in DOMAIN rs : HasKey(rs[k], "error")
    THEN BaseFields \o <<"error">>
    ELSE BaseFields

\* csv.DictWriter.writerow: a field the dict does not have is written empty
CsvRecord(row, fields) ==
    [f \in Range(fields) |-> IF HasKey(row, f) THEN row[f] ELSE ""]

\* mutant of CsvRecords: the error summaries are left out of the file
CsvRecordsWithoutErrors(rs, fields) ==
    LET ok == SelectSeq(rs, LAMBDA r : ~r.has_error)
    IN  [k \in DOMAIN ok |-> CsvRecord(ok[k], fields)]

\* csv.DictWriter.writerows(summary_rows)
CsvRecords(rs, fields) == [k \in DOMAIN rs |-> CsvRecord(rs[k], fields)]

\* cli.py eval_parallel after evaluate_all_models has returned: summary.csv
\* is opened for writing and gets the header and the rows
WriteSummaryCsv ==
    /\ pc = "returned"
    /\ summary_csv' = [writes |-> summary_csv.writes + 1,
                       fieldnames |-> Fieldnames(summary_rows),
                       records |-> CsvRecords(summary_rows, Fieldnames(summary_rows))]
    /\ pc' = "written"
    /\ UNCHANGED <<inputs, direct, retries, files, mi, tstate, trow, collected,
                   rows, pbar_n, summary_rows, overall_n, outcome, appended>>

\* summary.csv before the command writes it: writes counts the times the
\* file has been opened for writing
NoCsv == [writes |-> 0, fieldnames |-> <<>>, records |-> <<>>]

\* the environments a run starts in: which providers have their API key set
KeySets == { Providers, {Groq}, {OpenRouter} }

\* result files left in the output directory by an earlier run
StalePaths == { out_path(ModelSpec(Groq, <<"a","/","b">>, <<>>)) }

\* a row left in the output directory by an earlier run
StaleRow ==
    [id |-> 0, question |-> <<"Q">>, answer_ref |-> Rome, aliases |-> <<>>,
     model |-> <<>>, answer |-> StrVal(Rome), is_exact |-> TRUE,
     is_alias |-> FALSE, fuzzy |-> 100, is_correct |-> TRUE]

InitRun(lists) ==
    /\ model_specs \in lists
    /\ \E n \in 0..MaxItems :
         /\ Len(model_specs) * n <= MaxCalls
         /\ items = [i \in 1..n |-> QAItem(i)]
    /\ provider_concurrency \in ConcurrencyMaps
    /\ api_keys \in KeySets
    /\ files = [p \in Paths |->
                 IF p \in StalePaths THEN [exists |-> TRUE, lines |-> <<StaleRow>>]
                 ELSE [exists |-> FALSE, lines |-> <<>>]]
    /\ mi = 1
    /\ pc = "idle"
    /\ tstate = <<>>
    /\ trow = <<>>
    /\ collected = {}
    /\ rows = <<>>
    /\ pbar_n = 0
    /\ summary_rows = <<>>
    /\ overall_n = 0
    /\ retries = <<>>
    /\ summary_csv = NoCsv
    /\ grading = [pc |-> "off"]
    /\ summarizing = [pc |-> "off"]
    /\ resolving = [pc |-> "off"]
    /\ outcome = <<>>
    /\ appended = [m \in 1..Len(model_specs) |-> <<>>]

Init == InitRun(SpecLists)

Next ==
    \/ BuildFails
    \/ PoolFails
    \/ StartPool
    \/ \E i \in 1..N : WorkerStart(i)
    \/ \E i \in 1..N : AskReturns(i)
    \/ \E i \in 1..N : AskRaises(i)
    \/ \E i \in 1..N : RetryRequest(i)
    \/ \E i \in 1..N : AppendOpen(i)
    \/ \E i \in 1..N : AppendClose(i)
    \/ \E i \in 1..N : Collect(i)
    \/ FinishPool
    \/ Return
    \/ WriteSummaryCsv

Spec == Init /\ [][Next]_vars

\* runs in which every thread that can take a step eventually takes one and
\* every invocation in flight eventually returns or raises: the steps of a
\* run only move forward, so it is enough that the run does not stop while
\* a step is possible
SpecLive == Init /\ [][Next]_vars /\ WF_vars(Next)

\* runs over the longer spec lists
InitOrder == InitRun(ListedSpecs)

SpecOrder == InitOrder /\ [][Next]_vars

\* runs in which the result sink can fail
NextSink ==
    \/ Next
    \/ \E i \in 1..N : AppendOpenFails(i)
    \/ \E i \in 1..N : AppendWriteFails(i)

\* the most invocations of a run in which the result sink can fail
MaxSinkCalls == 2

InitSink ==
    /\ Init
    /\ Len(model_specs) * N <= MaxSinkCalls

SpecSink == InitSink /\ [][NextSink]_vars

----------------------------------------------------------------------------
(* grade_answer and normalize_text called on their own                     *)

\* longest candidate text built from GradeAlphabet
MaxTextLen == 3

\* an article letter, an upper-case letter, a plain letter, whitespace and
\* punctuation
GradeAlphabet == {"a", "N", "k", " ", "!"}

GradeTexts == UNION { [1..n -> GradeAlphabet] : n \in 0..MaxTextLen }

\* the candidates: texts, the tuple of ask_question and None
Predictions ==
    {StrVal(t) : t \in GradeTexts \cup {TheCityOfLight}}
      \cup {TupleVal(<<"k">>), NoneVal}

\* items: aliases absent, present, the empty list; an alias and a reference
\* that normalize to the empty text
GradeItems ==
    { QAItem(1), QAItem(2),
      [id |-> 3, question |-> <<"Q">>, answer |-> <<"k","k">>,
       aliases |-> [some |-> TRUE, list |-> <<>>]],
      [id |-> 4, question |-> <<"Q">>, answer |-> <<"k"," ","N">>,
       aliases |-> [some |-> TRUE, list |-> << <<"N","k">>, <<"!","a">> >>]],
      [id |-> 5, question |-> <<"Q">>, answer |-> <<"A","n">>,
       aliases |-> [some |-> FALSE, list |-> <<>>]] }

Thresholds == {0, 1, 67, 100, 101}

\* everything but the direct calls
poolvars == <<model_specs, items, provider_concurrency, api_keys, files, mi, pc,
              tstate, trow, collected, rows, pbar_n, summary_rows, overall_n,
              retries, summary_csv, outcome, appended>>

\* no evaluation runs
NoRun ==
    /\ model_specs = <<>>
    /\ items = <<>>
    /\ provider_concurrency = DefaultConcurrency
    /\ api_keys = {}
    /\ files = [p \in Paths |-> [exists |-> FALSE, lines |-> <<>>]]
    /\ mi = 1
    /\ pc = "off"
    /\ tstate = <<>>
    /\ trow = <<>>
    /\ collected = {}
    /\ rows = <<>>
    /\ pbar_n = 0
    /\ summary_rows = <<>>
    /\ overall_n = 0
    /\ retries = <<>>
    /\ summary_csv = NoCsv
    /\ outcome = <<>>
    /\ appended = <<>>

\* the arguments of the call are chosen
InitGrade ==
    /\ NoRun
    /\ summarizing = [pc |-> "off"]
    /\ resolving = [pc |-> "off"]
    /\ \E item \in GradeItems, prediction \in Predictions, t1, t2 \in Thresholds :
          grading = [pc |-> "called", item |-> item, prediction |-> prediction,
                     t1 |-> t1, t2 |-> t2]

\* grade_answer(item, prediction, t1) and grade_answer(item, prediction, t2)
GradeCall ==
    /\ grading.pc = "called"
    /\ grading' =
         [pc |-> "graded", item |-> grading.item,
          prediction |-> grading.prediction, t1 |-> grading.t1, t2 |-> grading.t2,
          g1 |-> grade_answer(grading.item, grading.prediction, grading.t1),
          g2 |-> grade_answer(grading.item, grading.prediction, grading.t2)]
    /\ UNCHANGED <<poolvars, summarizing, resolving>>

\* normalize_text of the candidate, normalize_text of the result, and
\* grade_answer of the normalized candidate
NormalizeAgain ==
    /\ grading.pc = "graded"
    /\ grading.prediction.kind = "str"
    /\ LET norm1 == normalize_text(grading.prediction.text)
       IN  grading' =
             [pc |-> "renormalized", item |-> grading.item,
              prediction |-> grading.prediction, t1 |-> grading.t1,
              t2 |-> grading.t2, g1 |-> grading.g1, g2 |-> grading.g2,
              norm1 |-> norm1,
              norm2 |-> normalize_text(norm1),
              gn |-> grade_answer(grading.item, StrVal(norm1), grading.t1)]
    /\ UNCHANGED <<poolvars, summarizing, resolving>>

NextGrade ==
    \/ GradeCall
    \/ NormalizeAgain

SpecGrade == InitGrade /\ [][NextGrade]_vars

----------------------------------------------------------------------------
(* summarize_results called on its own                                     *)

\* longest list of rows
MaxRows == 3

\* the grade fields of a row: correct by exact match, by alias, by the fuzzy
\* score alone, or incorrect
GradeFlags ==
    { [is_correct |-> TRUE, is_exact |-> TRUE, is_alias |-> FALSE],
      [is_correct |-> TRUE, is_exact |-> FALSE, is_alias |-> TRUE],
      [is_correct |-> TRUE, is_exact |-> FALSE, is_alias |-> FALSE],
      [is_correct |-> FALSE, is_exact |-> FALSE, is_alias |-> FALSE] }

FuzzyValues == {40, 70, 90}

SummaryRows ==
    { [is_correct |-> f.is_correct, is_exact |-> f.is_exact,
       is_alias |-> f.is_alias, fuzzy |-> z] : f \in GradeFlags, z \in FuzzyValues }

RowLists == UNION { [1..n -> SummaryRows] : n \in 0..MaxRows }

InitSummary ==
    /\ NoRun
    /\ grading = [pc |-> "off"]
    /\ resolving = [pc |-> "off"]
    /\ \E rs \in RowLists : summarizing = [pc |-> "called", rows |-> rs]

\* stats = summarize_results(rows)
SummarizeCall ==
    /\ summarizing.pc = "called"
    /\ summarizing' = [pc |-> "done", rows |-> summarizing.rows,
                       stats |-> summarize_results(summarizing.rows)]
    /\ UNCHANGED <<poolvars, grading, resolving>>

NextSummary == SummarizeCall

SpecSummary == InitSummary /\ [][NextSummary]_vars

----------------------------------------------------------------------------
(* Properties                                                              *)

\* model positions whose evaluate_model_parallel has returned normally
Returned == {k \in DOMAIN summary_rows : ~summary_rows[k].has_error}

\* items of model position k whose invocation returned / raised
Succeeded(k) == {i \in 1..N : <<k, i>> \in DOMAIN outcome /\ outcome[<<k, i>>].ok}
Failed(k) == {i \in 1..N : <<k, i>> \in DOMAIN outcome /\ ~outcome[<<k, i>>].ok}

\* the rows model position k appended for item i
RowsFor(k, i) == {j \in DOMAIN appended[k] : appended[k][j].id = items[i].id}

\* C1: once evaluate_model_parallel has returned for a model, exactly N rows
\* have been appended to its result file, one per item id, and the summary's
\* total is N, whatever the invocations did.
C1_ExactlyOneRow ==
    \A k \in Returned :
        /\ Len(appended[k]) = N
        /\ \A i \in 1..N : Cardinality(RowsFor(k, i)) = 1
        /\ summary_rows[k].total = N

\* C2: an invocation that returned text t gets a row whose answer is t and
\* whose grade fields are the grade of (item, t).
C2_SuccessRowGraded ==
    \A k \in Returned : \A i \in Succeeded(k) :
        LET t == outcome[<<k, i>>].text
            g == grade_answer(items[i], StrVal(t), FuzzyThreshold)
        IN  \E j \in RowsFor(k, i) :
                /\ appended[k][j].answer = StrVal(t)
                /\ appended[k][j].is_exact = g.is_exact
                /\ appended[k][j].is_alias = g.is_alias
                /\ appended[k][j].fuzzy = g.fuzzy
                /\ appended[k][j].is_correct = g.is_correct

SpecsNamed(d) == {k \in DOMAIN model_specs : display_name(model_specs[k]) = d}
SummariesNamed(d) == {k \in DOMAIN summary_rows : summary_rows[k].model = d}

\* C3: evaluate_all_models returns one summary per requested ModelSpec: as
\* many summaries as specs, and each display name on as many summaries as it
\* has occurrences in the input.
C3_OneSummaryPerSpec ==
    pc = "returned" =>
        /\ Len(summary_rows) = Len(model_specs)
        /\ \A sp \in SpecUniverse :
               Cardinality(SummariesNamed(display_name(sp)))
                 = Cardinality(SpecsNamed(display_name(sp)))

\* a run of two specs with an item, with an errored and a normal summary
C3_Witness ==
    /\ pc = "returned"
    /\ Len(model_specs) = 2
    /\ N = 1
    /\ \E k \in DOMAIN summary_rows : summary_rows[k].has_error
    /\ Returned # {}

\* what process_question makes of the recorded outcome of item i at model
\* position k: the grade (or the exception) and the row
GradeOf(k, i) == grade_answer(items[i], AnswerOf(outcome[<<k, i>>]), FuzzyThreshold)
RowOf(k, i) ==
    MakeRow(items[i], display_name(RunOrder[k]), AnswerOf(outcome[<<k, i>>]), GradeOf(k, i))

\* the rows a run of the model at position k alone yields for the outcomes
\* its invocations had, in dataset order
RECURSIVE SoloRowsFrom(_, _)
SoloRowsFrom(k, i) ==
    IF i > N THEN <<>>
    ELSE IF <<k, i>> \in DOMAIN outcome /\ ~GradeOf(k, i).raised
         THEN <<RowOf(k, i)>> \o SoloRowsFrom(k, i + 1)
         ELSE SoloRowsFrom(k, i + 1)

SoloRows(k) == SoloRowsFrom(k, 1)

\* the summary that run yields
SoloSummary(k) ==
    IF BuildRaises(RunOrder[k]) THEN error_stats(RunOrder[k], "EnvironmentError")
    ELSE IF max_workers(RunOrder[k]) <= 0 THEN error_stats(RunOrder[k], "ValueError")
    ELSE ModelStats(RunOrder[k], SoloRows(k))

BuildFailures == {k \in DOMAIN RunOrder : BuildRaises(RunOrder[k])}

\* C4: when the invoker of some model A cannot be built, evaluate_all_models
\* does not raise, and every other model B is evaluated: each of its items is
\* invoked, and its row count and summary are those of a run of B alone.
C4_FaultIsolation ==
    (pc \in {"returned", "raised"} /\ BuildFailures # {}) =>
        /\ pc = "returned"
        /\ \A k \in DOMAIN RunOrder \ BuildFailures :
               /\ k \in DOMAIN summary_rows
               /\ summary_rows[k] = SoloSummary(k)
               /\ Len(appended[k]) = Len(SoloRows(k))
               /\ k \in Returned => \A i \in 1..N : <<k, i>> \in DOMAIN outcome

\* a model whose build fails, and a later model that wrote a row
C4_Witness ==
    /\ pc = "returned"
    /\ \E a \in BuildFailures : \E k \in Returned :
           a < k /\ summary_rows[k].total >= 1 /\ Len(appended[k]) >= 1

\* C5: a failed invocation yields one row for its item and neither cancels nor
\* skips a sibling item, and the pool completes with a summary; a single
\* failing item gives total = 1 and correct = 0.
C5_FailureIsLocal ==
    \A k \in Returned :
        /\ \A i \in Failed(k) : Cardinality(RowsFor(k, i)) = 1
        /\ \A i \in 1..N : <<k, i>> \in DOMAIN outcome
        /\ (N = 1 /\ Failed(k) = {1}) =>
               summary_rows[k].total = 1 /\ summary_rows[k].correct = 0

\* C6: the row of a failed invocation is graded incorrect, neither exact nor
\* alias, and its answer is the error text tagged "<error: ...>".
C6_FailedRowIncorrect ==
    \A k \in DOMAIN appended : \A j \in DOMAIN appended[k] :
        LET r == appended[k][j]
            oc == outcome[<<k, r.id>>]
        IN  ~oc.ok =>
               /\ r.answer = StrVal(ErrorTag(oc.text))
               /\ ~r.is_correct
               /\ ~r.is_exact
               /\ ~r.is_alias

\* the limit configured for the provider key of spec, 5 without an entry
ConfiguredLimit(spec) ==
    IF spec.provider_key \in DOMAIN provider_concurrency
    THEN provider_concurrency[spec.provider_key]
    ELSE 5

\* C7: at every moment of a pool the invocations in flight are at most the
\* limit configured for the model's provider.
C7_BoundedConcurrency ==
    pc = "pool" => Cardinality(InFlight) <= ConfiguredLimit(CurSpec)

\* the limit is reached while an item still waits in the queue
C7_Witness ==
    /\ pc = "pool"
    /\ Cardinality(InFlight) = ConfiguredLimit(CurSpec)
    /\ \E i \in 1..N : tstate[i] = "queued"

\* earlier model positions of the provider of the current model
EarlierOfProvider ==
    {k \in 1..(mi - 1) : RunOrder[k].provider_key = CurSpec.provider_key}

\* C8: while a model's pool is active, every earlier model of the same
\* provider is over: each of its invocations has completed, its rows are
\* written and collected, and its summary is appended.
C8_SequentialWithinProvider ==
    pc = "pool" =>
        \A k \in EarlierOfProvider :
            /\ k \in DOMAIN summary_rows
            /\ k \in Returned =>
                   /\ \A i \in 1..N : <<k, i>> \in DOMAIN outcome
                   /\ summary_rows[k].total = Len(appended[k])

\* the second model of a provider has an invocation in flight
C8_Witness ==
    /\ pc = "pool"
    /\ InFlight # {}
    /\ EarlierOfProvider \cap Returned # {}

\* C9: every row in the in-memory collection is already in the result file.
C9_WrittenBeforeCollected ==
    pc = "pool" =>
        \A j \in DOMAIN rows : rows[j] \in Range(files[out_path(CurSpec)].lines)

\* a collected row is on disk while another item is in flight
C9_Witness ==
    /\ pc = "pool"
    /\ Len(rows) >= 1
    /\ Len(files[out_path(CurSpec)].lines) >= 1
    /\ InFlight # {}

\* C10: at most one worker of a pool is inside the open-write-close of
\* append_jsonl at any time.
C10_SerializedWrites == Cardinality(Appending) <= 1

----------------------------------------------------------------------------
(* The result file of one model                                            *)

\* model positions whose evaluate_model_parallel has got past the unlink
Cleared == {k \in 1..(mi - 1) : TRUE} \cup (IF pc = "pool" THEN {mi} ELSE {})

\* the last of the positions in owners
LastOf(owners) == CHOOSE k \in owners : \A j \in owners : j <= k

\* C11: the result file of a model is removed before the model's pool appends
\* its first row: from the unlink on the file holds exactly the rows that
\* the latest model of this run with that path has appended, so nothing of
\* an earlier run; where no file existed the unlink changes nothing, and a
\* file that nobody opened since does not exist; a file no model of the run
\* has reached yet is as the earlier run left it.
C11_ClearBeforeFirstWrite ==
    LET order == RunOrder
        path == [k \in Cleared |-> out_path(order[k])]
    IN  \A p \in Paths :
          LET owners == {k \in Cleared : path[k] = p}
          IN  IF owners # {}
              THEN /\ files[p].lines = appended[LastOf(owners)]
                   /\ LastOf(owners) < mi =>
                        files[p].exists = (appended[LastOf(owners)] # <<>>)
              ELSE files[p] = IF p \in StalePaths
                              THEN [exists |-> TRUE, lines |-> <<StaleRow>>]
                              ELSE [exists |-> FALSE, lines |-> <<>>]

\* a finished model whose path held a row of an earlier run and now holds
\* the row the model appended; another finished model whose path had no file
C11_Witness ==
    /\ \E k \in Returned :
          /\ out_path(RunOrder[k]) \in StalePaths
          /\ appended[k] # <<>>
          /\ files[out_path(RunOrder[k])].lines = appended[k]
    /\ \E k \in DOMAIN summary_rows : out_path(RunOrder[k]) \notin StalePaths

\* C12: when append_jsonl has raised for a row of a model's pool, the model
\* is not given a summary without the error set: the step that appends the
\* model's summary appends an error summary.
C12_SinkFailurePropagates ==
    [][ (pc = "pool" /\ \E i \in DOMAIN tstate : tstate[i] = "write_failed")
          => \/ summary_rows' = summary_rows
             \/ summary_rows'[Len(summary_rows')].has_error ]_vars

\* C13: when build_chat_model raises for a model (its provider's API key is
\* not set), the model's pool is never started, so no invocation is made and
\* no row is appended for it, and once the model is finished its position in
\* summary_rows holds the one summary of the model, with the error set.
C13_BuildFailure ==
    LET order == RunOrder
    IN  /\ Len(summary_rows) = mi - 1
        /\ \A k \in DOMAIN order :
              order[k].provider_key \notin api_keys =>
                 /\ k = mi => pc # "pool"
                 /\ \A i \in 1..N : <<k, i>> \notin DOMAIN outcome
                 /\ appended[k] = <<>>
                 /\ k < mi =>
                      /\ summary_rows[k].model = display_name(order[k])
                      /\ summary_rows[k].has_error
                      /\ summary_rows[k].error = "EnvironmentError"

\* a finished run with an item, a model whose build failed and a model whose
\* pool ran
C13_Witness ==
    /\ pc = "returned"
    /\ N >= 1
    /\ \E k \in DOMAIN summary_rows :
          /\ RunOrder[k].provider_key \notin api_keys
          /\ summary_rows[k].has_error
    /\ Returned # {}

\* C14: the total of every summary, the error summaries included, is the
\* number of rows the model's pool appended in this run.
C14_TotalIsRowsWritten ==
    \A k \in DOMAIN summary_rows : summary_rows[k].total = Len(appended[k])

\* C15: an invocation sends one request: the client of a call in flight
\* has made no retry.
C15_SingleAttempt == \A i \in DOMAIN retries : retries[i] = 0

----------------------------------------------------------------------------
(* The grader                                                              *)

\* grade_answer has returned a Grade for the call
Graded == grading.pc \in {"graded", "renormalized"} /\ ~grading.g1.raised

\* C16: every Grade that grade_answer returns has is_correct equal to
\* (is_exact or is_alias or fuzzy >= threshold), with the stored fuzzy an
\* integer from 0 to 100.
C16_GradeInvariant ==
    Graded =>
       /\ grading.g1.is_correct =
             (\/ grading.g1.is_exact
              \/ grading.g1.is_alias
              \/ grading.g1.fuzzy >= grading.t1)
       /\ grading.g1.fuzzy \in 0..100

\* a candidate that is correct by its fuzzy score alone, the score being
\* neither 0 nor 100
C16_Witness ==
    /\ Graded
    /\ grading.g1.is_correct
    /\ ~grading.g1.is_exact
    /\ ~grading.g1.is_alias
    /\ grading.t1 = 67
    /\ grading.g1.fuzzy < 100

\* C17: grade_answer returns a Grade for every candidate and every item; it
\* never raises.
C17_GradeNeverRaises ==
    grading.pc \in {"graded", "renormalized"} => ~grading.g1.raised

\* C18: a candidate that normalizes to the empty text is graded incorrect,
\* whatever the item, for every threshold of at least 1.
C18_EmptyIsIncorrect ==
    ( /\ Graded
      /\ normalize_text(grading.prediction.text) = <<>>
      /\ grading.t1 >= 1 )
       => ~grading.g1.is_correct

\* C19: for one item and one candidate, a Grade that is correct under the
\* higher of two thresholds is correct under the lower, and is_exact,
\* is_alias and fuzzy are the same under both.
C19_ThresholdMonotone ==
    (Graded /\ grading.t1 <= grading.t2) =>
       /\ grading.g2.is_correct => grading.g1.is_correct
       /\ grading.g1.is_exact = grading.g2.is_exact
       /\ grading.g1.is_alias = grading.g2.is_alias
       /\ grading.g1.fuzzy = grading.g2.fuzzy

\* a candidate that is correct under the lower threshold only
C19_Witness ==
    /\ Graded
    /\ grading.t1 < grading.t2
    /\ grading.g1.is_correct
    /\ ~grading.g2.is_correct

\* C20: normalize_text gives the same text when applied to its own result,
\* and grade_answer gives the same Grade for a candidate and for the
\* candidate's normalized text.
C20_NormalizeIdempotent ==
    grading.pc = "renormalized" =>
       /\ grading.norm2 = grading.norm1
       /\ grading.gn = grading.g1

\* a candidate that normalization changes and that matches an alias
C20_Witness ==
    /\ grading.pc = "renormalized"
    /\ grading.norm1 # grading.prediction.text
    /\ grading.norm1 # <<>>
    /\ grading.g1.is_alias
    /\ grading.gn.is_alias

\* C21: is_alias is true exactly when the normalized candidate is the
\* normalized form of one of the item's aliases; an item whose aliases are
\* absent or the empty list gives is_alias false for every candidate.
C21_AliasMatch ==
    Graded =>
       /\ grading.g1.is_alias =
             ( /\ grading.item.aliases.some
               /\ \E j \in DOMAIN grading.item.aliases.list :
                     normalize_text(grading.item.aliases.list[j])
                       = normalize_text(grading.prediction.text) )
       /\ (~grading.item.aliases.some \/ grading.item.aliases.list = <<>>)
             => ~grading.g1.is_alias

\* a candidate that is none of the aliases as written and matches one after
\* normalization, without matching the reference
C21_Witness ==
    /\ Graded
    /\ grading.g1.is_alias
    /\ ~grading.g1.is_exact
    /\ normalize_text(grading.prediction.text) # <<>>
    /\ \A j \in DOMAIN grading.item.aliases.list :
          grading.item.aliases.list[j] # grading.prediction.text

----------------------------------------------------------------------------
(* The summary of a list of rows                                           *)

\* the positions of rs whose row has the flag set
Flagged(rs, flag) == {j \in DOMAIN rs : rs[j][flag]}

\* the sum of the fuzzy scores of the rows at the positions in S
RECURSIVE FuzzySum(_, _)
FuzzySum(rs, S) ==
    IF S = {} THEN 0
    ELSE LET j == CHOOSE x \in S : TRUE IN rs[j].fuzzy + FuzzySum(rs, S \ {j})

\* v is num / den rounded to the nearest integer
Nearest(v, num, den) == 2 * v * den - den <= 2 * num /\ 2 * num <= 2 * v * den + den

\* C22: summarize_results returns total = the number of rows, correct, exact
\* and alias = the number of rows with that flag, accuracy = correct / total
\* rounded to 3 decimals and avg_fuzzy = the mean fuzzy rounded to 1 decimal,
\* both 0 for no rows (accuracy is held in thousandths, avg_fuzzy in tenths).
C22_SummaryIsReduction ==
    summarizing.pc = "done" =>
       LET rs == summarizing.rows
           st == summarizing.stats
       IN  /\ st.total = Len(rs)
           /\ st.correct = Cardinality(Flagged(rs, "is_correct"))
           /\ st.exact = Cardinality(Flagged(rs, "is_exact"))
           /\ st.alias = Cardinality(Flagged(rs, "is_alias"))
           /\ IF rs = <<>>
              THEN st.accuracy = 0 /\ st.avg_fuzzy = 0
              ELSE /\ Nearest(st.accuracy, 1000 * st.correct, Len(rs))
                   /\ Nearest(st.avg_fuzzy, 10 * FuzzySum(rs, DOMAIN rs), Len(rs))

\* three rows, two of them correct, with fuzzy 90, 40 and 70: accuracy 0.667
\* and avg_fuzzy 66.7
C22_Witness ==
    /\ summarizing.pc = "done"
    /\ Len(summarizing.rows) = 3
    /\ summarizing.rows[1].fuzzy = 90
    /\ summarizing.rows[2].fuzzy = 40
    /\ summarizing.rows[3].fuzzy = 70
    /\ summarizing.stats.correct = 2
    /\ summarizing.stats.accuracy = 667
    /\ summarizing.stats.avg_fuzzy = 667

----------------------------------------------------------------------------
(* The summary file of eval_parallel                                       *)

\* C23: summary.csv is written at most once, and only when every model of
\* the run is finished; it then holds one record per summary of
\* summary_rows, in their order, and the record of an error summary is there
\* with its model and with the error in the error column.
C23_SummaryWrittenOnce ==
    /\ summary_csv.writes <= 1
    /\ summary_csv.writes = 0 => summary_csv.records = <<>>
    /\ summary_csv.writes = 1 =>
          /\ mi > Len(RunOrder)
          /\ pc = "written"
          /\ Len(summary_rows) = Len(model_specs)
          /\ Len(summary_csv.records) = Len(summary_rows)
          /\ \A k \in DOMAIN summary_rows :
                /\ summary_csv.records[k].model = summary_rows[k].model
                /\ summary_csv.records[k].total = summary_rows[k].total
                /\ summary_csv.records[k].accuracy = summary_rows[k].accuracy
                /\ summary_rows[k].has_error =>
                     /\ "error" \in DOMAIN summary_csv.records[k]
                     /\ summary_csv.records[k].error = summary_rows[k].error

\* a written summary file of a run with an item, an errored and a normal
\* summary
C23_Witness ==
    /\ summary_csv.writes = 1
    /\ N = 1
    /\ \E k \in DOMAIN summary_rows : summary_rows[k].has_error
    /\ \E k \in DOMAIN summary_rows :
          ~summary_rows[k].has_error /\ summary_csv.records[k].error = ""

----------------------------------------------------------------------------
(* One model of evaluate_all_models, from the answers of its items to its  *)
(* summary                                                                 *)

\* the items and the answers of the rows of a pool
StatsItems == {it \in GradeItems : it.id \in {3, 4}}

StatsAnswers == { <<"k","k">>, <<"N","k">>, <<"k"," ","N">>, <<"N">> }

AnsweredItems ==
    { [item |-> it, answer |-> StrVal(t)] : it \in StatsItems, t \in StatsAnswers }

\* what the try of evaluate_all_models meets: the exception of
\* evaluate_model_parallel, or the answers its pool graded into rows
PoolRuns ==
    { [failed |-> TRUE, e |-> e] : e \in {"EnvironmentError", "ValueError"} }
    \cup
    { [failed |-> FALSE, answered |-> ans] :
        ans \in UNION { [1..n -> AnsweredItems] : n \in 0..MaxRows } }

\* process_question for each answer: grade_answer and the row dict
PoolRows(spec, answered) ==
    [k \in DOMAIN answered |->
        MakeRow(answered[k].item, display_name(spec), answered[k].answer,
                grade_answer(answered[k].item, answered[k].answer, FuzzyThreshold))]

InitStats ==
    /\ NoRun
    /\ grading = [pc |-> "off"]
    /\ resolving = [pc |-> "off"]
    /\ \E sp \in SpecUniverse, run \in PoolRuns :
          summarizing = [pc |-> "called", spec |-> sp, run |-> run]

\* the summary evaluate_all_models appends for the model: stats of the
\* rows, or error_stats
StatsCall ==
    /\ summarizing.pc = "called"
    /\ summarizing' =
          [pc |-> "done", spec |-> summarizing.spec, run |-> summarizing.run,
           stats |-> IF summarizing.run.failed
                     THEN error_stats(summarizing.spec, summarizing.run.e)
                     ELSE ModelStats(summarizing.spec,
                                     PoolRows(summarizing.spec,
                                              summarizing.run.answered))]
    /\ UNCHANGED <<poolvars, grading, resolving>>

NextStats == StatsCall

SpecStats == InitStats /\ [][NextStats]_vars

----------------------------------------------------------------------------
(* cli.py: the sequential eval command                                     *)
(* The loops run in the calling thread; mi is the position of the model    *)
(* loop in specs, in the order resolve_model_specs returned them.          *)

\* for spec in specs: build_chat_model raises, no handler is around it and
\* the exception leaves the command
EvalBuildRaises ==
    /\ pc = "idle"
    /\ mi <= Len(model_specs)
    /\ BuildRaises(model_specs[mi])
    /\ pc' = "build_raised"
    /\ UNCHANGED <<inputs, direct, summary_csv, retries, files, mi, tstate,
                   trow, collected, rows, pbar_n, summary_rows, overall_n,
                   outcome, appended>>

\* the client is built, out_path is computed and rows starts empty; the
\* file at out_path is left as it is
EvalStartModel ==
    /\ pc = "idle"
    /\ mi <= Len(model_specs)
    /\ ~BuildRaises(model_specs[mi])
    /\ tstate' = [i \in 1..N |-> "queued"]
    /\ trow' = <<>>
    /\ rows' = <<>>
    /\ pc' = "items"
    /\ UNCHANGED <<inputs, direct, summary_csv, retries, files, mi, collected,
                   pbar_n, summary_rows, overall_n, outcome, appended>>

\* one iteration of for item in items: ask_question with its try/except,
\* grade_answer, whose exception leaves the command, rows.append(row) and
\* append_jsonl(out_path, row)
EvalItem(i, oc) ==
    LET ans == AnswerOf(oc)
        g == RunGrade[items[i], ans]
        path == out_path(model_specs[mi])
    IN  /\ pc = "items"
        /\ tstate[i] = "queued"
        /\ \A j \in 1..(i - 1) : tstate[j] = "done"
        /\ outcome' = (<<mi, i>> :> oc) @@ outcome
        /\ IF g.raised
           THEN /\ tstate' = [tstate EXCEPT ![i] = "raised"]
                /\ pc' = "grade_raised"
                /\ UNCHANGED <<trow, rows, files, appended>>
           ELSE /\ tstate' = [tstate EXCEPT ![i] = "done"]
                /\ pc' = pc
                /\ trow' = (i :> MakeRow(items[i], display_name(model_specs[mi]), ans, g))
                              @@ trow
                /\ rows' = Append(rows, trow'[i])
                /\ files' = [files EXCEPT ![path] =
                                [exists |-> TRUE, lines |-> Append(@.lines, trow'[i])]]
                /\ appended' = [appended EXCEPT ![mi] = Append(@, trow'[i])]
        /\ UNCHANGED <<inputs, direct, summary_csv, retries, mi, collected,
                       pbar_n, summary_rows, overall_n>>

\* the iteration when ask_question returns
EvalAskReturns(i) == \E t \in AnswerTexts : EvalItem(i, [ok |-> TRUE, text |-> t])

\* the iteration when ask_question raises
EvalAskRaises(i) == \E e \in ErrorTexts : EvalItem(i, [ok |-> FALSE, text |-> e])

\* after the last item: summarize_results(rows), stats.update and
\* summary_rows.append(stats)
EvalFinishModel ==
    /\ pc = "items"
    /\ \A i \in 1..N : tstate[i] = "done"
    /\ summary_rows' = Append(summary_rows, ModelStats(model_specs[mi], rows))
    /\ mi' = mi + 1
    /\ pc' = "idle"
    /\ NoPool
    /\ UNCHANGED <<inputs, direct, summary_csv, files, overall_n, outcome,
                   appended>>

\* after the last model: summary.csv is opened for writing and gets the
\* header and the rows
EvalWriteSummary ==
    /\ pc = "idle"
    /\ mi > Len(model_specs)
    /\ summary_csv' = [writes |-> summary_csv.writes + 1,
                       fieldnames |-> BaseFields,
                       records |-> CsvRecords(summary_rows, BaseFields)]
    /\ pc' = "written"
    /\ UNCHANGED <<inputs, direct, retries, files, mi, tstate, trow, collected,
                   rows, pbar_n, summary_rows, overall_n, outcome, appended>>

NextEval ==
    \/ EvalBuildRaises
    \/ EvalStartModel
    \/ \E i \in 1..N : EvalAskReturns(i)
    \/ \E i \in 1..N : EvalAskRaises(i)
    \/ EvalFinishModel
    \/ EvalWriteSummary

SpecEval == Init /\ [][NextEval]_vars

\* the item loop of eval for one model as a function of what the invocations
\* did, outs[i] for item i, from an output file without rows: the rows it
\* has appended to rows and to the file, and whether grade_answer raised and
\* ended the command before the summary
SequentialLoop(spec, its, outs) ==
    LET ans(i) == AnswerOf(outs[i])
        raising == {i \in DOMAIN its : RunGrade[its[i], ans(i)].raised}
        last == IF raising = {} THEN Len(its)
                ELSE (CHOOSE i \in raising : \A j \in raising : i <= j) - 1
    IN  [raised |-> raising # {},
         rows |-> [i \in 1..last |->
                     MakeRow(its[i], display_name(spec), ans(i),
                             RunGrade[its[i], ans(i)])]]

----------------------------------------------------------------------------
(* config.py: list_model_specs, resolve_model_specs                        *)
(* A ProvidersConfig is the sequence of the items of cfg.providers, each   *)
(* with its key and its models.                                            *)

\* str.split(sep) for a one-character sep
RECURSIVE SplitOn(_, _)
SplitOn(t, sep) ==
    LET first == SplitFirst(t, sep)
    IN  IF Len(first) = Len(t) THEN <<first>>
        ELSE <<first>> \o SplitOn(SubSeq(t, Len(first) + 2, Len(t)), sep)

\* str.split(sep, 1)[1], for a text that holds sep
AfterFirst(t, sep) == SubSeq(t, Len(SplitFirst(t, sep)) + 2, Len(t))

\* sep.join(parts)
RECURSIVE JoinWith(_, _)
JoinWith(parts, sep) ==
    IF parts = <<>> THEN <<>>
    ELSE IF Len(parts) = 1 THEN parts[1]
    ELSE parts[1] \o <<sep>> \o JoinWith(Tail(parts), sep)

ModelEntry(id, deployment) == [id |-> id, deployment |-> deployment]

\* the specs of one provider, in the order of its models
ProviderSpecs(prov) ==
    [k \in DOMAIN prov.models |->
        ModelSpec(prov.key, prov.models[k].id, prov.models[k].deployment)]

RECURSIVE list_model_specs(_)
list_model_specs(cfg) ==
    IF cfg = <<>> THEN <<>>
    ELSE ProviderSpecs(Head(cfg)) \o list_model_specs(Tail(cfg))

\* the first loop of resolve_model_specs: the stripped parts that are not
\* empty
SelectorParts(text) ==
    LET parts == SplitOn(text, ",")
    IN  SelectSeq([k \in DOMAIN parts |-> Strip(parts[k])], LAMBDA part : part # <<>>)

\* wanted.append((prov.strip(), mod.strip()))
Wanted(part) ==
    [prov_key |-> Strip(SplitFirst(part, ":")), mod_id |-> Strip(AfterFirst(part, ":"))]

\* cfg.providers.get(prov_key)
ProviderGet(cfg, prov_key) ==
    IF \E k \in DOMAIN cfg : cfg[k].key = prov_key
    THEN [some |-> TRUE, prov |-> cfg[CHOOSE k \in DOMAIN cfg : cfg[k].key = prov_key]]
    ELSE [some |-> FALSE]

\* the inner loop of resolve_model_specs: the first entry with the id
FoundEntry(prov, mod_id) ==
    LET hits == {k \in DOMAIN prov.models : prov.models[k].id = mod_id}
    IN  IF hits = {} THEN [some |-> FALSE]
        ELSE LET k == CHOOSE h \in hits : \A g \in hits : h <= g
             IN  [some |-> TRUE,
                  spec |-> ModelSpec(prov.key, prov.models[k].id, prov.models[k].deployment)]

\* one iteration of the second loop: the ModelSpec, or the KeyError
Resolved(cfg, w) ==
    LET got == ProviderGet(cfg, w.prov_key)
    IN  IF ~got.some THEN [some |-> FALSE] ELSE FoundEntry(got.prov, w.mod_id)

\* mutant of resolve_model_specs: entries that name no configured model are
\* left out of the result
resolve_model_specs_lenient(cfg, selector) ==
    IF selector.kind = "none" \/ selector.text = <<>>
    THEN [raised |-> FALSE, specs |-> list_model_specs(cfg)]
    ELSE LET parts == SelectorParts(selector.text)
         IN  IF \E k \in DOMAIN parts : ":" \notin Range(parts[k])
             THEN [raised |-> TRUE, exc |-> "ValueError"]
             ELSE LET found == [k \in DOMAIN parts |-> Resolved(cfg, Wanted(parts[k]))]
                      kept == SelectSeq(found, LAMBDA f : f.some)
                  IN  [raised |-> FALSE, specs |-> [k \in DOMAIN kept |-> kept[k].spec]]

\* resolve_model_specs: the result, or the exception it raises
resolve_model_specs(cfg, selector) ==
    IF selector.kind = "none" \/ selector.text = <<>>
    THEN [raised |-> FALSE, specs |-> list_model_specs(cfg)]
    ELSE LET parts == SelectorParts(selector.text)
         IN  IF \E k \in DOMAIN parts : ":" \notin Range(parts[k])
             THEN [raised |-> TRUE, exc |-> "ValueError"]
             ELSE LET found == [k \in DOMAIN parts |-> Resolved(cfg, Wanted(parts[k]))]
                  IN  IF \E k \in DOMAIN found : ~found[k].some
                      THEN [raised |-> TRUE, exc |-> "KeyError"]
                      ELSE [raised |-> FALSE,
                            specs |-> [k \in DOMAIN found |-> found[k].spec]]

\* the most entries a selector has
MaxParts == 2

\* the configurations: a provider with two entries of one id, a provider
\* without models
Configs ==
    { << [key |-> Groq,
          models |-> << ModelEntry(<<"m">>, <<>>), ModelEntry(<<"m">>, <<"d">>),
                        ModelEntry(<<"n">>, <<"d">>) >>],
         [key |-> OpenRouter, models |-> << ModelEntry(<<"m">>, <<>>) >>] >>,
      << [key |-> Groq, models |-> << >>],
         [key |-> OpenRouter, models |-> << ModelEntry(<<"n">>, <<>>) >>] >> }

\* what stands between the commas of a selector
PartTexts ==
    { Groq \o <<":", "m">>,
      Groq \o <<":", "n">>,
      OpenRouter \o <<":", "m">>,
      <<" ">> \o Groq \o <<" ", ":", " ", "n", " ">>,
      Groq \o <<":", "x">>,
      <<"x", ":", "m">>,
      Groq \o <<"m">>,
      <<":">>,
      <<" ">>,
      << >> }

Selectors ==
    {NoneVal} \cup
    { StrVal(JoinWith(parts, ",")) :
        parts \in UNION { [1..n -> PartTexts] : n \in 1..MaxParts } }

InitResolve ==
    /\ NoRun
    /\ grading = [pc |-> "off"]
    /\ summarizing = [pc |-> "off"]
    /\ \E cfg \in Configs, selector \in Selectors :
          resolving = [pc |-> "called", cfg |-> cfg, selector |-> selector]

ResolveCall ==
    /\ resolving.pc = "called"
    /\ resolving' = [pc |-> "done", cfg |-> resolving.cfg,
                     selector |-> resolving.selector,
                     result |-> resolve_model_specs(resolving.cfg, resolving.selector)]
    /\ UNCHANGED <<poolvars, grading, summarizing>>

NextResolve == ResolveCall

SpecResolve == InitResolve /\ [][NextResolve]_vars

----------------------------------------------------------------------------
(* The order of summaries and pools                                        *)

\* C24: while the pool of a model runs, every earlier model of the run has
\* its summary in summary_rows already, at its position; and no step removes
\* or changes a summary that is in summary_rows.
C24_SummaryAppendedAtOnce ==
    /\ [](pc = "pool" =>
            LET order == RunOrder
            IN  /\ Len(summary_rows) = mi - 1
                /\ \A k \in 1..(mi - 1) :
                      summary_rows[k].model = display_name(order[k]))
    /\ [][\A k \in DOMAIN summary_rows :
             /\ k \in DOMAIN summary_rows'
             /\ summary_rows'[k] = summary_rows[k]]_vars

\* an invocation of the second model in flight, the first model's summary
\* appended
C24_Witness ==
    /\ pc = "pool"
    /\ mi = 2
    /\ InFlight # {}
    /\ Len(summary_rows) = 1
    /\ summary_rows[1].total = 1

----------------------------------------------------------------------------
(* The rows of a pool                                                      *)

\* futures the as_completed loop has consumed and that gave a row
CollectedRows == collected \cap DOMAIN trow

\* C25: rows of a pool changes only in an iteration of the as_completed
\* loop, which appends the row of the one future it consumes (or when a pool
\* starts or ends, which empties it); so at every moment of a pool rows
\* holds exactly one element per consumed future that gave a row.
C25_RowsCollectedByOneThread ==
    /\ [](pc = "pool" =>
            /\ Len(rows) = Cardinality(CollectedRows)
            /\ \A i \in CollectedRows : \E k \in DOMAIN rows : rows[k] = trow[i])
    /\ [][rows' # rows =>
             \/ rows' = <<>>
             \/ \E i \in collected' \ collected :
                   /\ collected' = collected \cup {i}
                   /\ rows' = Append(rows, trow[i])]_vars

\* both futures of a pool consumed, the second item's first
C25_Witness ==
    /\ pc = "pool"
    /\ Len(rows) = 2
    /\ rows[1].id = 2
    /\ rows[2].id = 1

\* a is a prefix of b
IsPrefix(a, b) == Len(a) <= Len(b) /\ SubSeq(b, 1, Len(a)) = a

\* C26: a step of a pool (an append that succeeds or fails, or any other
\* step of a worker or of the collecting loop) leaves every line that a
\* result file holds in place and unchanged, in the file of the model of the
\* pool, and leaves the file of every other path as it is.
C26_AppendKeepsWrittenRows ==
    [][ (pc = "pool" /\ pc' = "pool") =>
          \A p \in Paths :
             /\ IsPrefix(files[p].lines, files'[p].lines)
             /\ p # out_path(CurSpec) => files'[p] = files[p] ]_vars

\* the append of the second item failed part-way after the row of the first
\* item was written: the file holds that row, then the torn line
C26_Witness ==
    /\ pc = "pool"
    /\ N = 2
    /\ tstate[2] = "write_failed"
    /\ tstate[1] = "done"
    /\ files[out_path(CurSpec)].lines = <<trow[1], TornLine>>

\* C27: every row in rows of a pool is, field for field, a row the model
\* appended to its file and a line the file holds; and the step that
\* summarizes rows into the model's summary computes it from rows as they
\* are and changes neither the file nor the rows that were appended.
C27_RowsAsWritten ==
    /\ [](pc = "pool" =>
            \A k \in DOMAIN rows :
               /\ rows[k] \in Range(appended[mi])
               /\ rows[k] \in Range(files[out_path(CurSpec)].lines))
    /\ [][ (pc = "pool" /\ pc' = "idle") =>
             /\ summary_rows' = Append(summary_rows, ModelStats(CurSpec, rows))
             /\ files' = files
             /\ appended' = appended ]_vars

\* a model summarized from two rows, both in its file as they were appended
C27_Witness ==
    /\ pc = "idle"
    /\ mi = 2
    /\ summary_rows[1].total = 2
    /\ Len(appended[1]) = 2
    /\ files[out_path(RunOrder[1])].lines = appended[1]

----------------------------------------------------------------------------
(* The sequential eval command                                             *)

\* the command has ended: it wrote summary.csv or an exception left it
EvalEnded == pc \in {"written", "build_raised", "grade_raised"}

\* C28: when the eval command has ended, and no grading exception ended it,
\* every requested model whose client can be built has a summary, whether
\* or not the client of another requested model could be built.
C28_EvalBuildFailureIsolated ==
    (EvalEnded /\ pc # "grade_raised") =>
        \A k \in DOMAIN model_specs :
           ~BuildRaises(model_specs[k]) =>
              \E j \in DOMAIN summary_rows :
                 summary_rows[j].model = display_name(model_specs[k])

\* C29: once the eval command has finished a model whose path no other
\* requested model has, the file at the path holds exactly the rows the
\* model appended in this run, one per item.
C29_EvalFileHoldsCurrentRows ==
    \A k \in 1..(mi - 1) :
       (\A j \in DOMAIN model_specs :
           j # k => out_path(model_specs[j]) # out_path(model_specs[k]))
       => /\ files[out_path(model_specs[k])].lines = appended[k]
          /\ Len(appended[k]) = N

----------------------------------------------------------------------------
(* resolve_model_specs                                                     *)

\* the entries of a selector: what stands between its commas, blanks apart
Entries(text) ==
    LET parts == SplitOn(text, ",")
    IN  SelectSeq(parts, LAMBDA part : Strip(part) # <<>>)

\* the entry has the form provider:model_id
WellFormed(entry) == ":" \in Range(entry)

\* the entry names the spec: its provider before the first colon, its model
\* id after it, spaces around each apart
Names(entry, spec) ==
    /\ WellFormed(entry)
    /\ Strip(SplitFirst(entry, ":")) = spec.provider_key
    /\ Strip(AfterFirst(entry, ":")) = spec.model_id

\* C30: a call of resolve_model_specs without a selector or with the empty
\* one returns every configured model; a call with another selector either
\* returns as many ModelSpecs as the selector has entries, the k-th a
\* configured model that the k-th entry names, or raises: ValueError exactly
\* when an entry has no colon, KeyError otherwise and only when an entry names
\* no configured model.
C30_NoRequestedModelDropped ==
    resolving.pc = "done" =>
        LET sel == resolving.selector
            res == resolving.result
            all == list_model_specs(resolving.cfg)
        IN  IF sel.kind = "none" \/ sel.text = <<>>
            THEN ~res.raised /\ res.specs = all
            ELSE LET entries == Entries(sel.text)
                     malformed == \E k \in DOMAIN entries : ~WellFormed(entries[k])
                     unknown == \E k \in DOMAIN entries :
                                   \A j \in DOMAIN all : ~Names(entries[k], all[j])
                 IN  IF res.raised
                     THEN /\ res.exc \in {"ValueError", "KeyError"}
                          /\ res.exc = "ValueError" <=> malformed
                          /\ res.exc = "KeyError" => unknown
                     ELSE /\ Len(res.specs) = Len(entries)
                          /\ \A k \in DOMAIN entries :
                                /\ Names(entries[k], res.specs[k])
                                /\ res.specs[k] \in Range(all)

\* a selector of two entries resolved in the order of the selector, which is
\* not the order of the configuration
C30_Witness ==
    /\ resolving.pc = "done"
    /\ ~resolving.result.raised
    /\ Len(resolving.result.specs) = 2
    /\ resolving.result.specs[1].provider_key = OpenRouter
    /\ resolving.result.specs[2].provider_key = Groq

----------------------------------------------------------------------------
(* Result file names                                                       *)

\* C31: the specs of a run have result file names of their own, and when
\* evaluate_all_models has returned, the result file of every model without
\* an error summary holds exactly the rows the pool of that model appended.
C31_FileHoldsOwnRows ==
    LET order == RunOrder
    IN  /\ \A j, k \in DOMAIN order :
              j # k => out_path(order[j]) # out_path(order[k])
        /\ pc \in {"returned", "written"} =>
              \A k \in Returned :
                 files[out_path(order[k])].lines = appended[k]

----------------------------------------------------------------------------
(* The counts of a summary                                                 *)

\* C32: the summary of a model has 0 <= correct <= total, exact <= correct
\* and alias <= correct, and an error summary has correct, exact, alias and
\* accuracy 0.
C32_SummaryCounts ==
    summarizing.pc = "done" =>
       LET st == summarizing.stats
       IN  /\ 0 <= st.correct
           /\ st.correct <= st.total
           /\ st.exact <= st.correct
           /\ st.alias <= st.correct
           /\ st.has_error <=> summarizing.run.failed
           /\ st.has_error =>
                 st.correct = 0 /\ st.exact = 0 /\ st.alias = 0 /\ st.accuracy = 0

\* the summary of three rows: an exact one, one correct by an alias only and
\* an incorrect one
C32_Witness ==
    /\ summarizing.pc = "done"
    /\ ~summarizing.stats.has_error
    /\ summarizing.stats.total = 3
    /\ summarizing.stats.correct = 2
    /\ summarizing.stats.exact = 1
    /\ summarizing.stats.alias = 1

----------------------------------------------------------------------------
(* Termination                                                             *)

\* C33: in a run whose threads keep taking steps and whose invocations all
\* return or raise, every pool that has started reaches the point where the
\* futures of all N items are consumed, and evaluate_all_models returns with
\* a summary for every model.
C33_Termination ==
    /\ (pc = "pool") ~> (pc = "pool" /\ collected = 1..N /\ pbar_n = N)
    /\ <>(pc = "returned" /\ Len(summary_rows) = Len(model_specs))

\* a run of two models has returned; the pool of one had an invocation that
\* was retried, the other an invocation that returned
C33_Witness ==
    /\ pc = "returned"
    /\ Len(summary_rows) = 2
    /\ N = 1
    /\ \E k \in 1..2 : <<k, 1>> \in DOMAIN outcome /\ outcome[<<k, 1>>].ok
    /\ \E k \in 1..2 :
          /\ <<k, 1>> \in DOMAIN outcome
          /\ ~outcome[<<k, 1>>].ok
          /\ outcome[<<k, 1>>].text \in Retryable


\* the input position at which the provider of the spec at input position i
\* occurs first
FirstOccurrence(i) ==
    CHOOSE j \in DOMAIN model_specs :
        /\ _get_provider_name(model_specs[j]) = _get_provider_name(model_specs[i])
        /\ \A h \in 1..(j - 1) :
              _get_provider_name(model_specs[h]) # _get_provider_name(model_specs[i])

\* the spec at input position j is summarised before the one at position i
SummarisedBefore(j, i) ==
    \/ FirstOccurrence(j) < FirstOccurrence(i)
    \/ FirstOccurrence(j) = FirstOccurrence(i) /\ j < i

\* the place in the summaries of the spec at input position i
SummaryPlace(i) ==
    1 + Cardinality({j \in DOMAIN model_specs : SummarisedBefore(j, i)})

\* C34: the summaries come in an order fixed by the input spec list, whatever
\* the order in which the invocations complete: providers in order of their
\* first occurrence in the input, the models of a provider in input order;
\* when evaluate_all_models has returned there is one summary per spec
C34_SummaryOrder ==
    /\ \A i \in DOMAIN model_specs :
          SummaryPlace(i) \in DOMAIN summary_rows
             => summary_rows[SummaryPlace(i)].model = display_name(model_specs[i])
    /\ pc \in {"returned", "written"} => Len(summary_rows) = Len(model_specs)

\* a run over groq, openrouter, groq has returned: the second groq model is
\* summarised before the openrouter model, and an item finished in each
C34_Witness ==
    /\ pc = "returned"
    /\ Len(model_specs) = 3
    /\ N = 1
    /\ _get_provider_name(model_specs[1]) = Groq
    /\ _get_provider_name(model_specs[2]) = OpenRouter
    /\ _get_provider_name(model_specs[3]) = Groq
    /\ model_specs[1] # model_specs[3]
    /\ SummaryPlace(3) = 2
    /\ SummaryPlace(2) = 3
    /\ summary_rows[2].model = display_name(model_specs[3])
    /\ summary_rows[3].model = display_name(model_specs[2])


\* what the invocations of the current model did, by item
OutcomesOfModel == [i \in 1..N |-> outcome[<<mi, i>>]]

\* the counts of a summary
Counts(st) ==
    [total |-> st.total, correct |-> st.correct, exact |-> st.exact,
     alias |-> st.alias]

\* C35: a pool with concurrency limit 1 agrees with the sequential loop of
\* eval run on the same model, items, threshold and invocation outcomes from
\* an empty output directory: when the pool has collected every future, its
\* result file holds the rows the sequential loop writes, in dataset order,
\* and its summary has the total, correct, exact and alias counts of the
\* sequential loop's summary
C35_PoolAgreesWithSequential ==
    (pc = "pool" /\ collected = 1..N /\ max_workers(CurSpec) = 1)
       => LET seq == SequentialLoop(CurSpec, items, OutcomesOfModel)
          IN  /\ files[out_path(CurSpec)].lines = seq.rows
              /\ ~seq.raised =>
                    Counts(ModelStats(CurSpec, rows))
                       = Counts(ModelStats(CurSpec, seq.rows))


\* the current model fails before any invocation: its client cannot be built
\* or its worker pool cannot be created
FailsBeforeInvocation ==
    /\ pc = "idle"
    /\ mi <= Len(RunOrder)
    /\ BuildRaises(CurSpec) \/ max_workers(CurSpec) <= 0

\* the rows of the result file of the model summarised at place k
FileRowsOf(k) ==
    LET lines == files[out_path(RunOrder[k])].lines
    IN  {lines[j] : j \in DOMAIN lines}

\* C36: a model that fails before any invocation, because its client cannot
\* be built or its provider's limit is 0 or less, gets an errored summary,
\* the summaries of the other models and the position of the run are as for a
\* finished model, and its result file of an earlier run is removed; no
\* errored model has a row of an earlier run in its result file
C36_EarlyFailureReported ==
    /\ [](\A k \in DOMAIN summary_rows :
             summary_rows[k].has_error => StaleRow \notin FileRowsOf(k))
    /\ [][FailsBeforeInvocation =>
             /\ Len(summary_rows') = Len(summary_rows) + 1
             /\ SubSeq(summary_rows', 1, Len(summary_rows)) = summary_rows
             /\ summary_rows'[mi].has_error
             /\ summary_rows'[mi].model = display_name(CurSpec)
             /\ ~files'[out_path(CurSpec)].exists
             /\ files'[out_path(CurSpec)].lines = <<>>
             /\ \A p \in Paths \ {out_path(CurSpec)} : files'[p] = files[p]
             /\ outcome' = outcome
             /\ mi' = mi + 1
             /\ pc' = "idle"]_vars

\* a run has returned in which a model whose pool could not be created and a
\* model whose client could not be built have errored summaries, and the
\* result file the earlier run left for the first is gone
C36_Witness ==
    /\ pc = "returned"
    /\ \E k \in DOMAIN summary_rows :
          /\ summary_rows[k].has_error
          /\ summary_rows[k].error = "ValueError"
          /\ out_path(RunOrder[k]) \in StalePaths
          /\ ~files[out_path(RunOrder[k])].exists
    /\ \E k \in DOMAIN summary_rows :
          /\ summary_rows[k].has_error
          /\ summary_rows[k].error = "EnvironmentError"


\* C37: the progress bar of a model counts the futures the as_completed loop
\* has taken, one step per future whether it gave a row or raised, and
\* stands at N when the pool is left; the overall progress bar counts the
\* models that are done, one step per model whether it got a normal or an
\* errored summary
C37_ProgressCounters ==
    /\ [](/\ pc = "pool" => pbar_n = Cardinality(collected) /\ pbar_n <= N
          /\ overall_n = Len(summary_rows)
          /\ pc \in {"idle", "pool"} => overall_n = mi - 1)
    /\ [][/\ (pc = "pool" /\ collected' # collected /\ pc' = "pool")
               => /\ pbar_n' = pbar_n + 1
                  /\ \E i \in 1..N \ collected : collected' = collected \cup {i}
          /\ (pc = "pool" /\ pc' # "pool") => pbar_n = N
          /\ mi' # mi
               => /\ mi' = mi + 1
                  /\ overall_n' = overall_n + 1
                  /\ Len(summary_rows') = Len(summary_rows) + 1
          /\ overall_n' # overall_n => mi' # mi]_vars

\* the third model's only future raised and has been taken by the loop, the
\* bar stands at 1 of 1; before it one model got an errored summary and one
\* a summary of the row its future gave, and the overall bar stands at 2
C37_Witness ==
    /\ pc = "pool"
    /\ mi = 3
    /\ N = 1
    /\ tstate = <<"raised">>
    /\ collected = {1}
    /\ pbar_n = 1
    /\ overall_n = 2
    /\ \E k \in 1..2 : summary_rows[k].has_error
    /\ \E k \in 1..2 : ~summary_rows[k].has_error /\ summary_rows[k].total = 1

====
